---- MODULE Spec2Model ----
(***************************************************************************)
(* A model of pcie_lmt, the PCIe Lane Margining at Receiver test.          *)
(*                                                                         *)
(* The module holds several specifications over one set of variables:      *)
(*   SpecCodec  the 16-bit command/response word (cmdRsp.encode/decode);   *)
(*   SpecLane   one lane's LMR command exchanges and its register trace;   *)
(*   SpecPoint  one margin point's status polling against the clock;       *)
(*   SpecScan   one aspect's margin range and eye scan;                    *)
(*   SpecLink   one link's prepLink ... restoreLink register save/restore; *)
(*   SpecRx     one link's tasks: marginLink, its lane tasks, the          *)
(*              WaitGroups and the config-space mutex;                     *)
(*   SpecLinks  several links tested concurrently;                         *)
(*   SpecWalk   one walk of a capability list of a config space;           *)
(*   SpecEnum   getLinks' enumeration of the links and their launch;       *)
(*   SpecTrain  the link training test's trainLoop on one link.            *)
(* A variable group that a specification does not use keeps its initial    *)
(* value there.                                                            *)
(***************************************************************************)
EXTENDS Integers, Sequences, FiniteSets, TLC

VARIABLES
    \* ---- cmdRsp codec (pciutils.go, cmdRsp) ----
    cpc,        \* "raw" -> "decoded" -> "encoded"
    craw,       \* the 16-bit word handed to decode
    cr,         \* the cmdRsp fields after decode
    cenc,       \* the word returned by encode
    \* ---- one lane's LMR command exchanges (pciutils.go, lmt_offset.go) ----
    lnpc,       \* position of the lane in MarginLane's command sequence
    pidx,       \* index of the next command of readLaneParameters
    npts,       \* margin points started so far
    xpc,        \* position inside lmrCmdRsp / lmrCmdRspEcho / lmrCmdRspBase
    xmatch,     \* matchPayload of the lmrCmdRspBase that carries cmd
    xerr,       \* the exchange returned an error
    lcmd,       \* the caller's cmd
    lrsp,       \* the caller's rsp
    lparam,     \* ln.param: [ies, srm] from Report Control Capabilities
    ssc,        \* margin()'s setSampleCount
    trace,      \* the last two writes to the lane's command register
    Pass,       \* ln.Pass
    passIn,     \* ln.Pass when margin() was entered
    errOutOK,   \* t.errOutOK of the aspect under test
    pstatus,    \* point.Status of the margin point
    lerr,       \* an exchange of the parameter reads, of setErrLimit or of
                \* a step command returned an error
    owed,       \* what margin() still has to issue after a step command
    xrsp,       \* lmrCmdRspBase's rsp: the last response it decoded
    nlimit,     \* Set Error Count Limit commands written for the aspect
    limitOk,    \* the aspect's setErrLimit returned nil
    tsteps,     \* ln.tsteps: the steps of the timing points, in order
    vsteps,     \* ln.vsteps: the steps of the voltage points, in order
    laneSpecs,  \* the aspects whose TestSpec the lane holds (Tspec, Vspec)
    lanepb,     \* ln.lane and what GatherResult puts into it
    \* ---- one margin point against the clock (lmt_offset.go, margin) ----
    tpc,        \* position in calculateDwellTime / margin()'s status loop
    elapsed,    \* time.Since(t0) in ms
    dwellStart, \* tDwellStart as ms after t0, or Nil while it is zero
    dwellActual,\* dwellActual in ms
    tdwell,     \* t.dwell in ms
    specDwell,  \* *t.spec.Dwell in ms, or Nil
    polls,      \* status reads of the loop so far
    sps,        \* t.sps, in bits per ms
    samples,    \* *point.SampleCount, or Nil
    \* ---- one aspect's margin range and eye scan (lmt_lane.go) ----
    spc,        \* position in determineMarginRange / scanEye
    tspec,      \* t.spec: [start_offset, target_offset, step, eye_size]
    asp,        \* the aspect's steps, indDir, start, target, step and modes
    offset,     \* scanEye's offset (uint16)
    mp,         \* t.mp: the index in calls of each recorded point, or Nil
    pt,         \* scanEye's local mp: the index in calls of its point, or Nil
    passPos,    \* scanEye's passPos
    passNeg,    \* scanEye's passNeg
    calls,      \* the margin() calls of the scan, in order
    \* ---- inputs of a run (lanemargintest.go, getLinks / MarginLinks) ----
    lts,        \* the test-ready links MarginLinks launches
    width,      \* width[l]: negotiated width read from LnkSta by getLinks
    lnksta2,    \* lnksta2[l]: the LnkSta2 word of the DSP (retimer presence bits)
    cfgSpecs,   \* cfg.GetTestSpecs(): the TestSpec list
    bdfEmpty,   \* cfg.GetBdf() is empty
    \* ---- one walk of a capability list (getLMRcapability, getPcieCapOffset)
    wkind,      \* the walker: "lmr", "pcie", or "off"
    wcfg,       \* the config space: [ptr, node] (first pointer, headers)
    waddr,      \* the loop's addr
    been,       \* the offsets whose been[] entry is set
    wseen,      \* the offsets whose header was read, in order
    wret,       \* "run", or how the walker returned: "found", "notfound", "loop"
    wout,       \* the offset returned
    \* ---- the enumeration of the links (getLinks, MarginLinks) ----
    gdevs,      \* the devices pci.ScanDevices returned, in order
    gidx,       \* the loop index of getLinks, then of MarginLinks
    glts,       \* lts: the linktests appended, [dev, testReady]
    gpc,        \* "off", "getlinks", "launch", "done" or "failed"
    gmargined,  \* the devices whose link had marginLink started
    \* ---- the link training test (ltt/linktrain.go, trainLoop) ----
    ttpc,       \* position of trainLoop on its Linktest
    ltCfg,      \* lt.Cfg: [iterations, method, continue]
    chks,       \* lt.chks: the checked fields [expected, mask, state, val]
    itn,        \* trainLoop's i
    passCount,  \* lt.Cfg.PassCount
    failCount,  \* lt.Cfg.FailCount
    ltPass,     \* lt.Pass
    nlogs,      \* calls of lt.log()
    restored,   \* lt.restore() was called
    tev,        \* the checks and training actions of trainLoop, in order
    mism,       \* mism[k]: field k's masked value differed in some check
    \* ---- config-space registers and the port's saved bits ----
    reg,        \* reg[l][p]: [lnkctl, lnkctl2] of port p of link l
    reg0,       \* the registers' values before the test
    saved,      \* saved[l][p]: [hawd, hasd] of the port struct
    \* ---- tasks ----
    mpc,        \* MarginLinks (the main task)
    mwg,        \* MarginLinks' WaitGroup counter
    ltpc,       \* ltpc[l]: position of link l's marginLink task
    ltidx,      \* ltidx[l]: loop index of the link task at its position
    ltrx,       \* ltrx[l]: receiver index of the launching loop
    ltval,      \* ltval[l]: the local val of prepLink / restoreLink
    ltpanic,    \* ltpanic[l]: the link task is unwinding a panic
    allRx,      \* allRx[l]: the receivers instantiated by marginLink
    parallel,   \* parallel[l]: the receivers whose lanes run in parallel
    lanepc,     \* lanepc[l][r][n]: position of the lane's MarginLane task
    wg,         \* wg[l]: marginLink's local WaitGroup counter
    rxwg,       \* rxwg[l][r]: the receiver's WaitGroup counter
    linkwg,     \* the process-wide linkwg counter
    \* ---- pciutils mutex and process ----
    m,          \* the task holding pciutils' mutex m, or NoTask
    inside,     \* the tasks executing a pciutils C call
    panicking,  \* a goroutine finished unwinding a panic
    exited      \* the process has exited on a panic

codecVars == <<cpc, craw, cr, cenc>>

verdictVars == <<Pass, passIn, errOutOK, pstatus, lerr, owed>>

listVars == <<tsteps, vsteps, laneSpecs, lanepb>>

baseVars == <<xrsp, nlimit, limitOk>>

cmdVars == <<lnpc, pidx, npts, xpc, xmatch, xerr, lcmd, lrsp, lparam, ssc,
             trace, verdictVars, listVars, baseVars>>

timeVars == <<tpc, elapsed, dwellStart, dwellActual, tdwell, specDwell, polls,
              sps, samples>>

scanVars == <<spc, tspec, asp, offset, mp, pt, passPos, passNeg, calls>>

aspectVars == <<timeVars, scanVars>>

wordVars == <<codecVars, cmdVars, aspectVars>>

walkVars == <<wkind, wcfg, waddr, been, wseen, wret, wout>>

enumVars == <<gdevs, gidx, glts, gpc, gmargined>>

trainVars == <<ttpc, ltCfg, chks, itn, passCount, failCount, ltPass, nlogs,
               restored, tev, mism>>

inputVars == <<lts, width, lnksta2, cfgSpecs, bdfEmpty, walkVars, enumVars,
               trainVars>>

regVars == <<reg, reg0, saved>>

linkVars == <<mpc, mwg, ltpc, ltidx, ltrx, ltval, ltpanic, allRx, parallel>>

laneVars == <<lanepc, wg, rxwg, linkwg>>

procVars == <<m, inside, panicking, exited>>

concVars == <<inputVars, regVars, linkVars, laneVars, procVars>>

\* The variable groups trainLoop leaves alone.
trainOff == <<wordVars, lts, width, lnksta2, cfgSpecs, bdfEmpty, walkVars,
              enumVars, regVars, linkVars, laneVars, procVars>>

\* The variable groups the command exchanges of a lane leave alone.
laneOff == <<codecVars, aspectVars, concVars>>

vars == <<wordVars, concVars>>

\* ------------------------------------------------------------------------
\* Bit helpers: the code's masks and shifts on unsigned 16-bit words.
\* ------------------------------------------------------------------------
Word16 == 65536

\* (x >> n) & (2^k - 1) with pos = 2^n and size = 2^k
Field(x, pos, size) == (x \div pos) % size

\* ------------------------------------------------------------------------
\* cmdRsp.encode / cmdRsp.decode
\* ------------------------------------------------------------------------
NoFields == [payload |-> 0, usage |-> 0, typ |-> 0, rec |-> 0]

\* decode: payload = raw>>8 & 0xFF, usage = raw>>6 & 1, typ = raw>>3 & 7,
\* rec = raw & 7.
decode(raw) ==
    [payload |-> Field(raw, 256, 256),
     usage   |-> Field(raw, 64, 2),
     typ     |-> Field(raw, 8, 8),
     rec     |-> Field(raw, 1, 8)]

\* A faulty encode that masks the type field with 0x3 instead of 0x7.
encodeNarrowTyp(f) ==
    ((f.payload % 256) * 256 + (f.usage % 2) * 64 + (f.typ % 4) * 8
        + (f.rec % 8)) % Word16

\* encode: the four fields are disjoint bit ranges, so the OR is a sum.
encode(f) ==
    ((f.payload % 256) * 256 + (f.usage % 2) * 64 + (f.typ % 8) * 8
        + (f.rec % 8)) % Word16

\* ------------------------------------------------------------------------
\* Links, ports, receivers, lanes and tasks
\* ------------------------------------------------------------------------
MaxLinks == 2

MaxWidth == 2

\* ReceiverEnumSize: the 3-bit receiver number; allRx is indexed 0..7.
ReceiverEnumSize == 8

R_BROADCAST0 == 0

R_DSP_A1 == 1

R_RTU_B2 == 2

R_RTD_C3 == 3

R_RTU_D4 == 4

R_RTD_E5 == 5

R_USP_F6 == 6

R_RESERVED == 7

Links == 1 .. MaxLinks

Receivers == 0 .. (ReceiverEnumSize - 1)

LaneNums == 0 .. (MaxWidth - 1)

\* [2]*port{lt.dsp, lt.usp}
PortSeq == <<"dsp", "usp">>

Ports == {"dsp", "usp"}

Task(k, l, r, n) == [k |-> k, l |-> l, r |-> r, n |-> n]

NoTask == Task("none", 0, 0, 0)

Main == Task("main", 0, 0, 0)

Lt(l) == Task("link", l, 0, 0)

Ln(l, r, n) == Task("lane", l, r, n)

\* ------------------------------------------------------------------------
\* pciutils: every exported accessor is m.Lock(); defer m.Unlock(); C call.
\* ------------------------------------------------------------------------
\* An accessor that skips m.Lock().
LockNoMutex(t) ==
    /\ m' = t
    /\ inside' = inside \cup {t}

\* m.Lock() followed by the start of the C call.
Lock(t) ==
    /\ m = NoTask
    /\ m' = t
    /\ inside' = inside \cup {t}

\* The C call returns and the deferred m.Unlock() runs.
Unlock(t) ==
    /\ m' = NoTask
    /\ inside' = inside \ {t}

\* ------------------------------------------------------------------------
\* Link Control / Link Control 2 bits (pciutils lib/header.h)
\* ------------------------------------------------------------------------
PCI_EXP_LNKCTL_ASPM == 3

PCI_EXP_LNKCTL_HWAUTWD == 512

PCI_EXP_LNKCTL2_SPEED_DIS == 32

HasBit(val, bit) == Field(val, bit, 2) = 1

\* val | bit
SetBit(val, bit) == IF HasBit(val, bit) THEN val ELSE val + bit

\* val &^ bit
ClearBit(val, bit) == IF HasBit(val, bit) THEN val - bit ELSE val

\* val &^ mask for a mask of low bits (mask + 1 a power of two)
ClearLow(val, mask) == val - (val % (mask + 1))

\* A prepLink that leaves the ASPM control field alone.
prepLnkCtlKeepAspm(val) == SetBit(val, PCI_EXP_LNKCTL_HWAUTWD)

\* prepLink: val | HWAUTWD, then val &^ ASPM
prepLnkCtl(val) ==
    ClearLow(SetBit(val, PCI_EXP_LNKCTL_HWAUTWD), PCI_EXP_LNKCTL_ASPM)

\* prepLink: val | SPEED_DIS
prepLnkCtl2(val) == SetBit(val, PCI_EXP_LNKCTL2_SPEED_DIS)

\* restoreLink, Link Control: HWAUTWD from p.hawd
restoreLnkCtl(val, sv) ==
    IF sv.hawd THEN SetBit(val, PCI_EXP_LNKCTL_HWAUTWD)
    ELSE ClearBit(val, PCI_EXP_LNKCTL_HWAUTWD)

\* restoreLink, Link Control 2: the code tests p.hawd here, not p.hasd
restoreLnkCtl2(val, sv) ==
    IF sv.hawd THEN SetBit(val, PCI_EXP_LNKCTL2_SPEED_DIS)
    ELSE ClearBit(val, PCI_EXP_LNKCTL2_SPEED_DIS)

\* ------------------------------------------------------------------------
\* marginLink: receivers present and the binding of TestSpecs to lanes
\* ------------------------------------------------------------------------
PCI_EXP_LINKSTA2_RETIMER == 32

PCI_EXP_LINKSTA2_2RETIMERS == 64

\* A receiver loop that instantiates the retimer receivers of any link.
PresentRxAll(val) == {R_DSP_A1, R_USP_F6, R_RTU_B2, R_RTD_C3, R_RTU_D4, R_RTD_E5}

\* Receivers instantiated for a link whose LnkSta2 reads val: retimer0 and
\* retimer1 are the two presence bits.
PresentRx(val) ==
    {R_DSP_A1, R_USP_F6}
        \cup (IF (val \div PCI_EXP_LINKSTA2_RETIMER) % 2 = 1
              THEN {R_RTU_B2, R_RTD_C3} ELSE {})
        \cup (IF (val \div PCI_EXP_LINKSTA2_2RETIMERS) % 2 = 1
              THEN {R_RTU_D4, R_RTD_E5} ELSE {})

NoBinding == [ready |-> {}, tspec |-> {}, vspec |-> {}]

\* One iteration of "for _, spec := range cfg.GetTestSpecs()".
bindOne(b, spec, present, w) ==
    IF spec.receiver \in {R_BROADCAST0, R_RESERVED} THEN b
    ELSE IF spec.receiver \notin present THEN b
    ELSE IF spec.aspect \notin {"T", "V"}
        THEN [b EXCEPT !.ready = @ \ {spec.receiver}]
    ELSE LET ls == {n \in 0 .. (w - 1) :
                        spec.lanes = {} \/ n \in spec.lanes}
             hit == {<<spec.receiver, n>> : n \in ls}
         IN  IF spec.aspect = "V"
             THEN [b EXCEPT !.ready = @ \cup {spec.receiver},
                            !.vspec = @ \cup hit]
             ELSE [b EXCEPT !.ready = @ \cup {spec.receiver},
                            !.tspec = @ \cup hit]

RECURSIVE bindSpecs(_, _, _, _, _)
bindSpecs(b, specs, i, present, w) ==
    IF i > Len(specs) THEN b
    ELSE bindSpecs(bindOne(b, specs[i], present, w), specs, i + 1, present, w)

Binding(l) == bindSpecs(NoBinding, cfgSpecs, 1, allRx[l], width[l])

\* r != nil && r.testReady
Tested(l, r) == r \in allRx[l] /\ r \in Binding(l).ready

\* !(ln.Vspec == nil && ln.Tspec == nil)
HasSpec(l, r, n) ==
    <<r, n>> \in Binding(l).tspec \cup Binding(l).vspec

\* ------------------------------------------------------------------------
\* MarginLinks (the main task)
\* ------------------------------------------------------------------------
Alive == ~exited

MainNext(pc) ==
    CASE pc = "init" -> "scan"
      [] pc = "scan" -> "getlinks"
      [] pc = "getlinks" -> "launch"
      [] pc = "cleanup" -> "done"

\* pci.Init, pci.ScanDevices, the accessor calls of getLinks, pci.Cleanup
MainEnter ==
    /\ Alive
    /\ mpc \in {"init", "scan", "getlinks", "cleanup"}
    /\ Main \notin inside
    /\ Lock(Main)
    /\ UNCHANGED <<wordVars, inputVars, regVars, linkVars, laneVars,
                   panicking, exited>>

MainExit ==
    /\ Alive
    /\ Main \in inside
    /\ Unlock(Main)
    /\ mpc' = MainNext(mpc)
    /\ UNCHANGED <<wordVars, inputVars, regVars, mwg, ltpc, ltidx, ltrx,
                   ltval, ltpanic, allRx, parallel, laneVars, panicking,
                   exited>>

\* for _, lt := range lts { if lt.testReady { wg.Add(1); go lt.marginLink() } }
MainLaunch ==
    /\ Alive
    /\ mpc = "launch"
    /\ mpc' = "wait"
    /\ mwg' = Cardinality(lts)
    /\ ltpc' = [l \in Links |-> IF l \in lts THEN "prep" ELSE ltpc[l]]
    /\ UNCHANGED <<wordVars, inputVars, regVars, ltidx, ltrx, ltval,
                   ltpanic, allRx, parallel, laneVars, procVars>>

\* wg.Wait() of MarginLinks, then the deferred pci.Cleanup()
MainWait ==
    /\ Alive
    /\ mpc = "wait"
    /\ mwg = 0
    /\ mpc' = "cleanup"
    /\ UNCHANGED <<wordVars, inputVars, regVars, mwg, ltpc, ltidx, ltrx,
                   ltval, ltpanic, allRx, parallel, laneVars, procVars>>

\* ------------------------------------------------------------------------
\* marginLink (one task per link)
\* ------------------------------------------------------------------------
\* The link task is about to call pci.ReadWord / pci.WriteWord, or the
\* command exchange of GetIndErrorSampler.
LtEnter(l) ==
    /\ Alive
    /\ ltpc[l] \in {"prep", "lnksta2", "rxinit", "restore"}
    /\ ~(ltpc[l] = "rxinit" /\ width[l] = 0)
    /\ Lt(l) \notin inside
    /\ Lock(Lt(l))
    /\ UNCHANGED <<wordVars, inputVars, regVars, linkVars, laneVars,
                   panicking, exited>>

PortAt(i) == PortSeq[(i \div 4) + 1]

\* prepLink: per port ReadWord(LnkCtl), WriteWord(LnkCtl),
\* ReadWord(LnkCtl2), WriteWord(LnkCtl2); ltidx counts the calls.
prepLink(l) ==
    /\ Alive
    /\ ltpc[l] = "prep"
    /\ Lt(l) \in inside
    /\ Unlock(Lt(l))
    /\ LET p == PortAt(ltidx[l])
           k == ltidx[l] % 4
       IN  /\ CASE k = 0 ->
                    /\ saved' = [saved EXCEPT ![l][p].hawd =
                           HasBit(reg[l][p].lnkctl, PCI_EXP_LNKCTL_HWAUTWD)]
                    /\ ltval' = [ltval EXCEPT ![l] = prepLnkCtl(reg[l][p].lnkctl)]
                    /\ UNCHANGED reg
                [] k = 1 ->
                    /\ reg' = [reg EXCEPT ![l][p].lnkctl = ltval[l]]
                    /\ UNCHANGED <<saved, ltval>>
                [] k = 2 ->
                    /\ saved' = [saved EXCEPT ![l][p].hasd =
                           HasBit(reg[l][p].lnkctl2, PCI_EXP_LNKCTL2_SPEED_DIS)]
                    /\ ltval' = [ltval EXCEPT ![l] = prepLnkCtl2(reg[l][p].lnkctl2)]
                    /\ UNCHANGED reg
                [] k = 3 ->
                    /\ reg' = [reg EXCEPT ![l][p].lnkctl2 = ltval[l]]
                    /\ UNCHANGED <<saved, ltval>>
    /\ IF ltidx[l] = 7
       THEN /\ ltpc' = [ltpc EXCEPT ![l] = "lnksta2"]
            /\ ltidx' = [ltidx EXCEPT ![l] = 0]
       ELSE /\ ltidx' = [ltidx EXCEPT ![l] = @ + 1]
            /\ UNCHANGED ltpc
    /\ UNCHANGED <<wordVars, inputVars, reg0, mpc, mwg, ltrx, ltpanic,
                   allRx, parallel, laneVars, panicking, exited>>

\* The smallest receiver index above i that marginLink instantiates, or
\* ReceiverEnumSize.
NextPresent(present, i) ==
    IF \E r \in present : r > i
    THEN CHOOSE r \in present : r > i /\ \A q \in present : q > i => r <= q
    ELSE ReceiverEnumSize

\* val := pci.ReadWord(lt.dsp.dev, LnkSta2); retimer0, retimer1
readLnkSta2(l) ==
    /\ Alive
    /\ ltpc[l] = "lnksta2"
    /\ Lt(l) \in inside
    /\ Unlock(Lt(l))
    /\ allRx' = [allRx EXCEPT ![l] = PresentRx(lnksta2[l])]
    /\ ltpc' = [ltpc EXCEPT ![l] = "rxinit"]
    /\ ltidx' = [ltidx EXCEPT ![l] = NextPresent(PresentRx(lnksta2[l]), 0)]
    /\ UNCHANGED <<wordVars, inputVars, regVars, mpc, mwg, ltrx, ltval,
                   ltpanic, parallel, laneVars, panicking, exited>>

\* rxpt.parallel, err = rxpt.lanes[0].GetIndErrorSampler(): the response
\* decides; an error leaves parallel false.
rxInit(l) ==
    /\ Alive
    /\ ltpc[l] = "rxinit"
    /\ Lt(l) \in inside
    /\ Unlock(Lt(l))
    /\ \E par \in BOOLEAN :
         parallel' = [parallel EXCEPT ![l] =
                         IF par THEN @ \cup {ltidx[l]} ELSE @ \ {ltidx[l]}]
    /\ LET nx == NextPresent(allRx[l], ltidx[l])
       IN  IF nx = ReceiverEnumSize
           THEN /\ ltpc' = [ltpc EXCEPT ![l] = "launch"]
                /\ ltidx' = [ltidx EXCEPT ![l] = 0]
           ELSE /\ ltidx' = [ltidx EXCEPT ![l] = nx]
                /\ UNCHANGED ltpc
    /\ UNCHANGED <<wordVars, inputVars, regVars, mpc, mwg, ltrx, ltval,
                   ltpanic, allRx, laneVars, panicking, exited>>

\* rxpt.lanes[0] with rxpt.port.width = 0: index out of range. The link
\* task panics and unwinds through the deferred restoreLink.
rxInitPanic(l) ==
    /\ Alive
    /\ ltpc[l] = "rxinit"
    /\ width[l] = 0
    /\ ltpanic' = [ltpanic EXCEPT ![l] = TRUE]
    /\ ltpc' = [ltpc EXCEPT ![l] = "restore"]
    /\ ltidx' = [ltidx EXCEPT ![l] = 0]
    /\ UNCHANGED <<wordVars, inputVars, regVars, mpc, mwg, ltrx, ltval,
                   allRx, parallel, laneVars, procVars>>

\* restoreLink: the same four calls per port as prepLink.
restoreLink(l) ==
    /\ Alive
    /\ ltpc[l] = "restore"
    /\ Lt(l) \in inside
    /\ Unlock(Lt(l))
    /\ LET p == PortAt(ltidx[l])
           k == ltidx[l] % 4
       IN  CASE k = 0 ->
                 /\ ltval' = [ltval EXCEPT ![l] =
                        restoreLnkCtl(reg[l][p].lnkctl, saved[l][p])]
                 /\ UNCHANGED reg
             [] k = 1 ->
                 /\ reg' = [reg EXCEPT ![l][p].lnkctl = ltval[l]]
                 /\ UNCHANGED ltval
             [] k = 2 ->
                 /\ ltval' = [ltval EXCEPT ![l] =
                        restoreLnkCtl2(reg[l][p].lnkctl2, saved[l][p])]
                 /\ UNCHANGED reg
             [] k = 3 ->
                 /\ reg' = [reg EXCEPT ![l][p].lnkctl2 = ltval[l]]
                 /\ UNCHANGED ltval
    /\ IF ltidx[l] < 7
       THEN /\ ltidx' = [ltidx EXCEPT ![l] = @ + 1]
            /\ UNCHANGED <<ltpc, mwg, panicking>>
       ELSE /\ ltidx' = [ltidx EXCEPT ![l] = 0]
            /\ IF ltpanic[l]
               THEN \* the panic reaches the top of the goroutine
                    /\ ltpc' = [ltpc EXCEPT ![l] = "dead"]
                    /\ panicking' = TRUE
                    /\ UNCHANGED mwg
               ELSE \* marginLink returns; MarginLinks' deferred wg.Done()
                    /\ ltpc' = [ltpc EXCEPT ![l] = "done"]
                    /\ mwg' = mwg - 1
                    /\ UNCHANGED panicking
    /\ UNCHANGED <<wordVars, inputVars, reg0, saved, mpc, ltrx, ltpanic,
                   allRx, parallel, laneVars, exited>>

\* ------------------------------------------------------------------------
\* marginLink: the launching loop over receivers and lanes
\* ------------------------------------------------------------------------
\* "if r == nil { continue }" and "if !r.testReady { continue }"
skipRx(l) ==
    /\ Alive
    /\ ltpc[l] = "launch"
    /\ ltrx[l] < ReceiverEnumSize
    /\ ~Tested(l, ltrx[l])
    /\ ltrx' = [ltrx EXCEPT ![l] = @ + 1]
    /\ UNCHANGED <<wordVars, inputVars, regVars, mpc, mwg, ltpc, ltidx,
                   ltval, ltpanic, allRx, parallel, laneVars, procVars>>

\* "if ln.Vspec == nil && ln.Tspec == nil { continue }"
skipLane(l) ==
    /\ Alive
    /\ ltpc[l] = "launch"
    /\ ltrx[l] < ReceiverEnumSize
    /\ Tested(l, ltrx[l])
    /\ ltidx[l] < width[l]
    /\ ~HasSpec(l, ltrx[l], ltidx[l])
    /\ ltidx' = [ltidx EXCEPT ![l] = @ + 1]
    /\ UNCHANGED <<wordVars, inputVars, regVars, mpc, mwg, ltpc, ltrx,
                   ltval, ltpanic, allRx, parallel, laneVars, procVars>>

\* A launching loop that never waits for the previous lane.
serialWaitNever(l, r) == TRUE

\* "if !r.parallel { wg.Wait() }"
serialWait(l, r) == r \in parallel[l] \/ wg[l] = 0

\* wg.Add(1); r.rxwg.Add(1); go func(ln) { defer wg.Done(); ln.MarginLane() }
launchLane(l) ==
    /\ Alive
    /\ ltpc[l] = "launch"
    /\ ltrx[l] < ReceiverEnumSize
    /\ Tested(l, ltrx[l])
    /\ ltidx[l] < width[l]
    /\ HasSpec(l, ltrx[l], ltidx[l])
    /\ serialWait(l, ltrx[l])
    /\ wg' = [wg EXCEPT ![l] = @ + 1]
    /\ rxwg' = [rxwg EXCEPT ![l][ltrx[l]] = @ + 1]
    /\ lanepc' = [lanepc EXCEPT ![l][ltrx[l]][ltidx[l]] = "param"]
    /\ ltidx' = [ltidx EXCEPT ![l] = @ + 1]
    /\ UNCHANGED <<wordVars, inputVars, regVars, mpc, mwg, ltpc, ltrx,
                   ltval, ltpanic, allRx, parallel, linkwg, procVars>>

\* The end of "for _, ln := range r.lanes".
lanesLaunched(l) ==
    /\ Alive
    /\ ltpc[l] = "launch"
    /\ ltrx[l] < ReceiverEnumSize
    /\ Tested(l, ltrx[l])
    /\ ltidx[l] = width[l]
    /\ ltpc' = [ltpc EXCEPT ![l] = "wait"]
    /\ UNCHANGED <<wordVars, inputVars, regVars, mpc, mwg, ltidx, ltrx,
                   ltval, ltpanic, allRx, parallel, laneVars, procVars>>

\* A receiver loop that does not wait for its lanes.
receiverWaitNever(l) == TRUE

\* The wg.Wait() that ends a receiver's iteration.
receiverWait(l) == wg[l] = 0

\* wg.Wait(), the gathering of the results, then the next receiver.
waitLanes(l) ==
    /\ Alive
    /\ ltpc[l] = "wait"
    /\ receiverWait(l)
    /\ ltpc' = [ltpc EXCEPT ![l] = "launch"]
    /\ ltrx' = [ltrx EXCEPT ![l] = @ + 1]
    /\ ltidx' = [ltidx EXCEPT ![l] = 0]
    /\ UNCHANGED <<wordVars, inputVars, regVars, mpc, mwg, ltval, ltpanic,
                   allRx, parallel, laneVars, procVars>>

\* The end of "for _, r := range lt.allRx": marginLink returns and its
\* deferred restoreLink runs.
receiversDone(l) ==
    /\ Alive
    /\ ltpc[l] = "launch"
    /\ ltrx[l] = ReceiverEnumSize
    /\ ltpc' = [ltpc EXCEPT ![l] = "restore"]
    /\ ltidx' = [ltidx EXCEPT ![l] = 0]
    /\ UNCHANGED <<wordVars, inputVars, regVars, mpc, mwg, ltrx, ltval,
                   ltpanic, allRx, parallel, laneVars, procVars>>

\* ------------------------------------------------------------------------
\* MarginLane (one task per launched lane).  A lane's position names the
\* function whose command exchanges it is in; each exchange is a sequence
\* of pci.WriteWord / pci.ReadWord calls, entered with LaneEnter.
\* ------------------------------------------------------------------------
CallingPcs == {"param", "setlimit", "step", "poll", "count", "teardown"}

\* The positions in which the lane has left its parameter reads and is
\* margining: setErrLimit and margin().
MarginingPcs == {"setlimit", "step", "poll", "count", "print", "teardown"}

LaneEnter(l, r, n) ==
    /\ Alive
    /\ lanepc[l][r][n] \in CallingPcs
    /\ Ln(l, r, n) \notin inside
    /\ Lock(Ln(l, r, n))
    /\ UNCHANGED <<wordVars, inputVars, regVars, linkVars, laneVars,
                   panicking, exited>>

\* The lane moves to position nx; MarginLane's return runs the deferred
\* wg.Done() of the goroutine.
LaneGoto(l, r, n, nx) ==
    /\ lanepc' = [lanepc EXCEPT ![l][r][n] = nx]
    /\ wg' = [wg EXCEPT ![l] = IF nx = "ret" THEN @ - 1 ELSE @]

\* What scanEye / testEyeSize / MarginLane do when margin() has returned:
\* the next offset, the next aspect, or the return of MarginLane.
AfterMargin(l, r, n) ==
    {"step", "ret"}
        \cup (IF <<r, n>> \in Binding(l).tspec \cap Binding(l).vspec
              THEN {"setlimit"} ELSE {})

\* readLaneParameters: its exchanges, then rxwg.Done() on both outcomes;
\* a failed exchange returns the error from MarginLane.
readLaneParameters(l, r, n) ==
    /\ Alive
    /\ lanepc[l][r][n] = "param"
    /\ Ln(l, r, n) \in inside
    /\ Unlock(Ln(l, r, n))
    /\ \E nx \in {"param", "rxwait", "ret"} :
         /\ LaneGoto(l, r, n, nx)
         /\ rxwg' = [rxwg EXCEPT ![l][r] = IF nx = "param" THEN @ ELSE @ - 1]
    /\ UNCHANGED <<wordVars, inputVars, regVars, linkVars, linkwg,
                   panicking, exited>>

\* ln.rxwg.Wait()
rxwgWait(l, r, n) ==
    /\ Alive
    /\ lanepc[l][r][n] = "rxwait"
    /\ rxwg[l][r] = 0
    /\ lanepc' = [lanepc EXCEPT ![l][r][n] = "linkwait"]
    /\ UNCHANGED <<wordVars, inputVars, regVars, linkVars, wg, rxwg,
                   linkwg, procVars>>

\* ln.linkwg.Wait(), then prepareMarginTests: a lane with only a voltage
\* spec whose receiver does not support voltage has no aspect to test.
linkwgWait(l, r, n) ==
    /\ Alive
    /\ lanepc[l][r][n] = "linkwait"
    /\ linkwg = 0
    /\ \E nx \in {"setlimit"}
            \cup (IF <<r, n>> \in Binding(l).tspec THEN {} ELSE {"ret"}) :
         LaneGoto(l, r, n, nx)
    /\ UNCHANGED <<wordVars, inputVars, regVars, linkVars, rxwg, linkwg,
                   procVars>>

\* setErrLimit: Set-Error-Count-Limit; on an error testAspect and
\* MarginLane return it.
setErrLimit(l, r, n) ==
    /\ Alive
    /\ lanepc[l][r][n] = "setlimit"
    /\ Ln(l, r, n) \in inside
    /\ Unlock(Ln(l, r, n))
    /\ \E nx \in {"setlimit", "step", "ret"} : LaneGoto(l, r, n, nx)
    /\ UNCHANGED <<wordVars, inputVars, regVars, linkVars, rxwg, linkwg,
                   panicking, exited>>

\* margin(): the step command (lmrCmdRsp); its response is the first
\* status the loop looks at.
marginStep(l, r, n) ==
    /\ Alive
    /\ lanepc[l][r][n] = "step"
    /\ Ln(l, r, n) \in inside
    /\ Unlock(Ln(l, r, n))
    /\ \E nx \in {"step", "poll", "count", "print"} \cup AfterMargin(l, r, n) :
         LaneGoto(l, r, n, nx)
    /\ UNCHANGED <<wordVars, inputVars, regVars, linkVars, rxwg, linkwg,
                   panicking, exited>>

\* margin(): time.Sleep(marginWait) was taken outside the accessor; this is
\* the pci.ReadWord of the response that follows it.
marginPoll(l, r, n) ==
    /\ Alive
    /\ lanepc[l][r][n] = "poll"
    /\ Ln(l, r, n) \in inside
    /\ Unlock(Ln(l, r, n))
    /\ \E nx \in {"poll", "count", "print"} : LaneGoto(l, r, n, nx)
    /\ UNCHANGED <<wordVars, inputVars, regVars, linkVars, rxwg, linkwg,
                   panicking, exited>>

\* margin(): the Report-Sample-Count exchange; an error returns from
\* margin() at once.
marginCount(l, r, n) ==
    /\ Alive
    /\ lanepc[l][r][n] = "count"
    /\ Ln(l, r, n) \in inside
    /\ Unlock(Ln(l, r, n))
    /\ \E nx \in {"count", "print"} \cup AfterMargin(l, r, n) :
         LaneGoto(l, r, n, nx)
    /\ UNCHANGED <<wordVars, inputVars, regVars, linkVars, rxwg, linkwg,
                   panicking, exited>>

\* margin(): fmt.Printf(..., ln.cfg.GetBdf()[0], ...)
marginPrint(l, r, n) ==
    /\ Alive
    /\ lanepc[l][r][n] = "print"
    /\ ~bdfEmpty
    /\ lanepc' = [lanepc EXCEPT ![l][r][n] = "teardown"]
    /\ UNCHANGED <<wordVars, inputVars, regVars, linkVars, wg, rxwg, linkwg,
                   procVars>>

\* GetBdf()[0] on an empty list: index out of range. The lane task panics;
\* its deferred wg.Done() runs, nothing recovers.
marginPanic(l, r, n) ==
    /\ Alive
    /\ lanepc[l][r][n] = "print"
    /\ bdfEmpty
    /\ lanepc' = [lanepc EXCEPT ![l][r][n] = "dead"]
    /\ wg' = [wg EXCEPT ![l] = @ - 1]
    /\ panicking' = TRUE
    /\ UNCHANGED <<wordVars, inputVars, regVars, linkVars, rxwg, linkwg, m,
                   inside, exited>>

\* margin(): Clear-Error-Log and Go-To-Normal-Settings, then the return.
marginTeardown(l, r, n) ==
    /\ Alive
    /\ lanepc[l][r][n] = "teardown"
    /\ Ln(l, r, n) \in inside
    /\ Unlock(Ln(l, r, n))
    /\ \E nx \in {"teardown"} \cup AfterMargin(l, r, n) : LaneGoto(l, r, n, nx)
    /\ UNCHANGED <<wordVars, inputVars, regVars, linkVars, rxwg, linkwg,
                   panicking, exited>>

\* An unrecovered panic ends the process; no other goroutine's deferred
\* call runs.
ProcessExit ==
    /\ Alive
    /\ panicking
    /\ exited' = TRUE
    /\ UNCHANGED <<wordVars, inputVars, regVars, linkVars, laneVars, m,
                   inside, panicking>>

\* ------------------------------------------------------------------------
\* Initial states
\* ------------------------------------------------------------------------
TestSpec(r, a, ls) == [receiver |-> r, aspect |-> a, lanes |-> ls]

\* LnkCtl values: ASPM control 0..3, Common Clock (0x40) set, HWAUTWD 0/1.
LnkCtlValues == {a + 64 + h * PCI_EXP_LNKCTL_HWAUTWD : a \in 0 .. 3, h \in 0 .. 1}

\* LnkCtl2 values: target speed 5, SPEED_DIS 0/1.
LnkCtl2Values == {5 + d * PCI_EXP_LNKCTL2_SPEED_DIS : d \in 0 .. 1}

RegValues == [lnkctl : LnkCtlValues, lnkctl2 : LnkCtl2Values]

DefaultReg == [lnkctl |-> 64 + 1, lnkctl2 |-> 5]

\* The state of the tasks before MarginLinks starts.
TasksStart ==
    /\ reg0 = reg
    /\ saved = [l \in Links |-> [p \in Ports |-> [hawd |-> FALSE, hasd |-> FALSE]]]
    /\ mwg = 0
    /\ ltpc = [l \in Links |-> "idle"]
    /\ ltidx = [l \in Links |-> 0]
    /\ ltrx = [l \in Links |-> 0]
    /\ ltval = [l \in Links |-> 0]
    /\ ltpanic = [l \in Links |-> FALSE]
    /\ allRx = [l \in Links |-> {}]
    /\ parallel = [l \in Links |-> {}]
    /\ lanepc = [l \in Links |-> [r \in Receivers |-> [n \in LaneNums |-> "idle"]]]
    /\ wg = [l \in Links |-> 0]
    /\ rxwg = [l \in Links |-> [r \in Receivers |-> 0]]
    /\ linkwg = 0
    /\ m = NoTask
    /\ inside = {}
    /\ panicking = FALSE
    /\ exited = FALSE

\* No device list is enumerated.
TrainIdle ==
    /\ ttpc = "off"
    /\ ltCfg = [iterations |-> 0, method |-> "M_RETRAIN_DEFAULT",
                continue |-> "unset"]
    /\ chks = <<>>
    /\ itn = 0
    /\ passCount = 0
    /\ failCount = 0
    /\ ltPass = FALSE
    /\ nlogs = 0
    /\ restored = FALSE
    /\ tev = <<>>
    /\ mism = <<>>

EnumIdle ==
    /\ TrainIdle
    /\ gdevs = <<>>
    /\ gidx = 1
    /\ glts = <<>>
    /\ gpc = "off"
    /\ gmargined = {}

\* No capability list is walked.
WalkIdle ==
    /\ EnumIdle
    /\ wkind = "off"
    /\ wcfg = [ptr |-> 0, node |-> <<>>]
    /\ waddr = 0
    /\ been = {}
    /\ wseen = <<>>
    /\ wret = "run"
    /\ wout = 0

\* No link is under test (the specifications of the pure functions).
ConcIdle ==
    /\ WalkIdle
    /\ lts = {}
    /\ width = [l \in Links |-> 0]
    /\ lnksta2 = [l \in Links |-> 0]
    /\ cfgSpecs = <<>>
    /\ bdfEmpty = FALSE
    /\ reg = [l \in Links |-> [p \in Ports |-> DefaultReg]]
    /\ mpc = "off"
    /\ TasksStart

\* ln.lane before MarginLane ends: nil.
NoLane ==
    [made |-> FALSE, gathered |-> FALSE, TimingMargins |-> <<>>,
     VoltageMargins |-> <<>>]

\* Lane.Init: no point, no TestSpec, no result.
ListIdle ==
    /\ tsteps = <<>>
    /\ vsteps = <<>>
    /\ laneSpecs = {}
    /\ lanepb = NoLane

\* No lane is exchanging commands.
\* No response was decoded and no error count limit was set.
BaseIdle ==
    /\ xrsp = NoFields
    /\ nlimit = 0
    /\ limitOk = FALSE

CmdIdle ==
    /\ lnpc = "off"
    /\ pidx = 1
    /\ npts = 0
    /\ xpc = "idle"
    /\ xmatch = FALSE
    /\ xerr = FALSE
    /\ lcmd = NoFields
    /\ lrsp = NoFields
    /\ lparam = [ies |-> FALSE, srm |-> FALSE]
    /\ ssc = FALSE
    /\ trace = <<>>
    /\ Pass = TRUE
    /\ passIn = TRUE
    /\ errOutOK = FALSE
    /\ pstatus = "S_UNKNOWN"
    /\ lerr = FALSE
    /\ owed = "none"
    /\ ListIdle
    /\ BaseIdle

\* A nil pointer: an optional field that is not set, a point not recorded.
Nil == -1

\* No margin point is timed.
TimeIdle ==
    /\ tpc = "off"
    /\ elapsed = 0
    /\ dwellStart = Nil
    /\ dwellActual = 0
    /\ tdwell = 0
    /\ specDwell = Nil
    /\ polls = 0
    /\ sps = 0
    /\ samples = Nil

\* A TestSpec with none of the margin range fields set.
NoSpec ==
    [start_offset |-> Nil, target_offset |-> Nil, step |-> Nil,
     eye_size |-> Nil]

\* An aspect as prepareMarginTests builds it, before its parameters.
NoAspect ==
    [VnotT |-> FALSE, steps |-> 0, maxOffset |-> 0, indDir |-> FALSE,
     start |-> 0, target |-> 0, step |-> 1, eyeSizeMode |-> FALSE,
     targetMode |-> FALSE, eyeScanMode |-> FALSE, untilFail |-> FALSE,
     errOutOK |-> FALSE, specTarget |-> Nil]

\* t.mp with no point recorded.
NoPoints ==
    [side \in {"pos", "neg"} |-> [kind \in {"pass", "fail"} |-> Nil]]

\* No aspect is scanned.
ScanIdle ==
    /\ spc = "off"
    /\ tspec = NoSpec
    /\ asp = NoAspect
    /\ offset = 0
    /\ mp = NoPoints
    /\ pt = Nil
    /\ passPos = FALSE
    /\ passNeg = FALSE
    /\ calls = <<>>

\* No margin point is timed and no aspect is scanned.
AspectIdle == TimeIdle /\ ScanIdle

CodecIdle ==
    /\ cpc = "off"
    /\ craw = 0
    /\ cr = NoFields
    /\ cenc = 0

InitCodec ==
    /\ cpc = "raw"
    /\ craw \in 0 .. (Word16 - 1)
    /\ cr = NoFields
    /\ cenc = 0
    /\ CmdIdle
    /\ AspectIdle
    /\ ConcIdle

Decode ==
    /\ cpc = "raw"
    /\ cr' = decode(craw)
    /\ cpc' = "decoded"
    /\ UNCHANGED <<craw, cenc, cmdVars, aspectVars, concVars>>

Encode ==
    /\ cpc = "decoded"
    /\ cenc' = encode(cr)
    /\ cpc' = "encoded"
    /\ UNCHANGED <<craw, cr, cmdVars, aspectVars, concVars>>

NextCodec == Decode \/ Encode

SpecCodec == InitCodec /\ [][NextCodec]_vars

\* ------------------------------------------------------------------------
\* The link and lane tasks
\* ------------------------------------------------------------------------
LinkActions(l) ==
    \/ LtEnter(l)
    \/ prepLink(l)
    \/ readLnkSta2(l)
    \/ rxInit(l)
    \/ rxInitPanic(l)
    \/ skipRx(l)
    \/ skipLane(l)
    \/ launchLane(l)
    \/ lanesLaunched(l)
    \/ waitLanes(l)
    \/ receiversDone(l)
    \/ restoreLink(l)

LaneActions(l, r, n) ==
    \/ LaneEnter(l, r, n)
    \/ readLaneParameters(l, r, n)
    \/ rxwgWait(l, r, n)
    \/ linkwgWait(l, r, n)
    \/ setErrLimit(l, r, n)
    \/ marginStep(l, r, n)
    \/ marginPoll(l, r, n)
    \/ marginCount(l, r, n)
    \/ marginPrint(l, r, n)
    \/ marginPanic(l, r, n)
    \/ marginTeardown(l, r, n)

NextConc ==
    \/ MainEnter
    \/ MainExit
    \/ MainLaunch
    \/ MainWait
    \/ \E l \in Links : LinkActions(l)
    \/ \E l \in Links, r \in Receivers, n \in LaneNums : LaneActions(l, r, n)
    \/ ProcessExit

\* One link of width 0 or MaxWidth, one timing spec on lane 0 of the DSP
\* receiver, every combination of the pre-test LnkCtl / LnkCtl2 bits on
\* both ports.
InitLink ==
    /\ WalkIdle
    /\ CodecIdle
    /\ CmdIdle
    /\ AspectIdle
    /\ lts = {1}
    /\ \E w \in {0, MaxWidth} :
         width = [l \in Links |-> IF l = 1 THEN w ELSE 0]
    /\ lnksta2 = [l \in Links |-> 0]
    /\ cfgSpecs = <<TestSpec(R_DSP_A1, "T", {0})>>
    /\ bdfEmpty \in BOOLEAN
    /\ \E rd \in RegValues, ru \in RegValues :
         reg = [l \in Links |-> [p \in Ports |->
                   IF l # 1 THEN DefaultReg ELSE IF p = "dsp" THEN rd ELSE ru]]
    /\ mpc = "init"
    /\ TasksStart

SpecLink == InitLink /\ [][NextConc]_vars

\* The single-link runs: the LnkSta2 word and the TestSpec list.
RxRuns ==
    {[lnksta2 |-> 0,
      specs |-> <<TestSpec(R_DSP_A1, "T", {}), TestSpec(R_USP_F6, "V", {})>>],
     [lnksta2 |-> PCI_EXP_LINKSTA2_RETIMER,
      specs |-> <<TestSpec(R_USP_F6, "T", {0}), TestSpec(R_USP_F6, "V", {0}),
                  TestSpec(R_RTU_D4, "T", {}), TestSpec(R_BROADCAST0, "T", {})>>],
     [lnksta2 |-> PCI_EXP_LINKSTA2_2RETIMERS,
      specs |-> <<TestSpec(R_DSP_A1, "T", {0}), TestSpec(R_DSP_A1, "none", {}),
                  TestSpec(R_RTU_B2, "T", {}), TestSpec(R_RTD_E5, "V", {0}),
                  TestSpec(R_RESERVED, "V", {})>>],
     [lnksta2 |-> 0,
      specs |-> <<TestSpec(R_USP_F6, "none", {}), TestSpec(R_USP_F6, "V", {}),
                  TestSpec(R_RTD_C3, "V", {})>>]}

\* One link of width 0..MaxWidth.
InitRx ==
    /\ WalkIdle
    /\ CodecIdle
    /\ CmdIdle
    /\ AspectIdle
    /\ lts = {1}
    /\ \E w \in 0 .. MaxWidth :
         width = [l \in Links |-> IF l = 1 THEN w ELSE 0]
    /\ \E run \in RxRuns :
         /\ lnksta2 = [l \in Links |-> run.lnksta2]
         /\ cfgSpecs = run.specs
    /\ bdfEmpty \in BOOLEAN
    /\ reg = [l \in Links |-> [p \in Ports |-> DefaultReg]]
    /\ mpc = "init"
    /\ TasksStart

SpecRx == InitRx /\ [][NextConc]_vars

\* The TestSpec lists of the multi-link runs.
LinksSpecLists ==
    {<<TestSpec(R_USP_F6, "T", {})>>,
     <<TestSpec(R_DSP_A1, "T", {1}), TestSpec(R_USP_F6, "V", {0})>>}

\* Every link under test, each of width 1 but for link 1 of width 0 or 1.
InitLinks ==
    /\ WalkIdle
    /\ CodecIdle
    /\ CmdIdle
    /\ AspectIdle
    /\ lts = Links
    /\ \E w \in 0 .. 1 : width = [l \in Links |-> IF l = 1 THEN w ELSE 1]
    /\ lnksta2 = [l \in Links |-> 0]
    /\ cfgSpecs \in LinksSpecLists
    /\ bdfEmpty \in BOOLEAN
    /\ reg = [l \in Links |-> [p \in Ports |-> DefaultReg]]
    /\ mpc = "init"
    /\ TasksStart

SpecLinks == InitLinks /\ [][NextConc]_vars

\* ------------------------------------------------------------------------
\* One lane's LMR command exchanges
\* ------------------------------------------------------------------------
MaxPoints == 2

MarginTypeNoCmd == 7

MarginTypeReport == 1

MarginTypeSet == 2

MarginTypeTiming == 3

MarginTypeVoltage == 4

NoCmdPayload == 156

NoCmdRecNum == 0

RptControlCapabilities == 136

RptSampleCount == 143

RptMaxLanes == 144

MskIndErrorSampler == 16

MskSampleReportingMethod == 8

SetErrorCountLimit == 192

SetGoToNormalSettings == 15

SetClearErrorLog == 85

\* 1 << StepMarginExecutionStatusPos
StepMarginExecutionStatusUnit == 64

StepMarginExecutionStatusErrorOut == 0

StepMarginExecutionStatusSettingUp == 1

StepMarginExecutionStatusMargining == 2

StepMarginExecutionStatusNak == 3

\* cmdRsp{payload: NoCmdPayload, rec: NoCmdRecNum, typ: MarginTypeNoCmd}
NoCmd ==
    [payload |-> NoCmdPayload, usage |-> 0, typ |-> MarginTypeNoCmd,
     rec |-> NoCmdRecNum]

\* The commands of readLaneParameters in program order: Clear Error Log and
\* Go To Normal Settings through lmrCmdRspEcho, then the eight Reports
\* (0x88 .. 0x8E and 0x90) through lmrCmdRsp.
ParamCmds ==
    <<[typ |-> MarginTypeSet, payload |-> SetClearErrorLog, echo |-> TRUE],
      [typ |-> MarginTypeSet, payload |-> SetGoToNormalSettings, echo |-> TRUE]>>
    \o [i \in 1 .. 7 |->
         [typ |-> MarginTypeReport, payload |-> RptControlCapabilities + i - 1,
          echo |-> FALSE]]
    \o <<[typ |-> MarginTypeReport, payload |-> RptMaxLanes, echo |-> FALSE]>>

\* The command the exchange is carrying at its position: lmrBroadcastNoCmd's
\* own cmd, or the caller's.
Pending == IF xpc \in {"bcW", "bcR"} THEN NoCmd ELSE lcmd

PendingMatch == xpc \in {"bcW", "bcR"} \/ xmatch

\* A polling loop that never compares the payloads.
MatchesAnyPayload(rsp, cmd, matchPayload) ==
    /\ rsp.rec = cmd.rec
    /\ rsp.typ = cmd.typ
    /\ rsp.usage = 0

\* The test of lmrCmdRspBase's polling loop.
Matches(rsp, cmd, matchPayload) ==
    /\ rsp.rec = cmd.rec
    /\ rsp.typ = cmd.typ
    /\ rsp.usage = 0
    /\ (~matchPayload \/ rsp.payload = cmd.payload)

\* The payloads a receiver may answer the command with.
RspPayloads(cmd) ==
    IF cmd.typ \in {MarginTypeNoCmd, MarginTypeSet} THEN {cmd.payload}
    ELSE IF cmd.typ = MarginTypeReport
    THEN IF cmd.payload = RptControlCapabilities
         THEN {0, MskSampleReportingMethod, MskIndErrorSampler,
               MskIndErrorSampler + MskSampleReportingMethod}
         ELSE {cmd.payload % 32}
    ELSE {st * StepMarginExecutionStatusUnit :
            st \in {StepMarginExecutionStatusErrorOut,
                    StepMarginExecutionStatusSettingUp,
                    StepMarginExecutionStatusMargining,
                    StepMarginExecutionStatusNak}}

\* The words pci.ReadWord(dev, addr+2) may return while cmd is in the
\* command register: an answer to cmd, the reflection of the No Command
\* before it, 0, or (for a command that is to be echoed) a response of the
\* command's receiver and type whose payload is not the command's.
StatusWords(cmd) ==
    {encode([cmd EXCEPT !.payload = p]) : p \in RspPayloads(cmd)}
        \cup {encode(NoCmd), 0}
        \cup IF cmd.typ \in {MarginTypeNoCmd, MarginTypeSet}
             THEN {encode([cmd EXCEPT !.payload = (cmd.payload + 1) % 256])}
             ELSE {}

\* lmrCmdRsp(&cmd), lmrCmdRspEcho(&cmd) (both start with lmrBroadcastNoCmd)
\* or lmrCmdRspBase(&cmd, matchPayload) is entered.
Call(cmd, withNoCmd, matchPayload) ==
    /\ xpc = "idle"
    /\ lcmd' = cmd
    /\ xmatch' = matchPayload
    /\ xerr' = FALSE
    /\ xpc' = IF withNoCmd THEN "bcW" ELSE "cmW"

\* What margin() owes the receiver once cmd is written: a step command
\* is to be followed by Clear Error Log and then Go To Normal Settings.
owedAfter(cmd) ==
    IF cmd.typ \in {MarginTypeTiming, MarginTypeVoltage} THEN "clear"
    ELSE IF cmd.typ = MarginTypeSet /\ cmd.payload = SetClearErrorLog
            /\ owed = "clear" THEN "normal"
    ELSE IF cmd.typ = MarginTypeSet /\ cmd.payload = SetGoToNormalSettings
            /\ owed = "normal" THEN "none"
    ELSE owed

\* The command is setErrLimit's: a Set with payload SetErrorCountLimit |
\* errlimit.
isSetErrLimit(cmd) ==
    /\ cmd.typ = MarginTypeSet
    /\ cmd.payload \div 64 = SetErrorCountLimit \div 64

\* lmrCmdRspBase: pci.WriteWord(dev, addr, cmd.encode()), with rsp zero.
lmrCmdRspBaseWrite ==
    /\ xpc \in {"bcW", "cmW"}
    /\ LET all == Append(trace, [w |-> encode(Pending), echoed |-> FALSE])
       IN  trace' = IF Len(all) > 2 THEN Tail(all) ELSE all
    /\ owed' = owedAfter(Pending)
    /\ xpc' = IF xpc = "bcW" THEN "bcR" ELSE "cmR"
    /\ xrsp' = NoFields
    /\ nlimit' = IF isSetErrLimit(Pending) THEN nlimit + 1 ELSE nlimit
    /\ UNCHANGED <<laneOff, limitOk, listVars, lnpc, pidx, npts, xmatch, xerr, lcmd, lrsp,
                   lparam, ssc, Pass, passIn, errOutOK, pstatus, lerr>>

\* lmrCmdRspBase: one pass of the polling loop. A matching response returns
\* it (and lmrCmdRsp / lmrCmdRspEcho go on to the command after the
\* broadcast); otherwise the loop reads again until CmdTimeout and then
\* returns the error.
lmrCmdRspBaseRead ==
    /\ xpc \in {"bcR", "cmR"}
    /\ \E raw \in StatusWords(Pending), timedOut \in BOOLEAN :
         LET rsp == decode(raw)
         IN  /\ xrsp' = rsp
             /\ IF Matches(rsp, Pending, PendingMatch)
                THEN /\ trace' = [trace EXCEPT ![Len(trace)].echoed = TRUE]
                     /\ IF xpc = "bcR"
                        THEN xpc' = "cmW" /\ UNCHANGED <<lrsp, xerr>>
                        ELSE xpc' = "ret" /\ lrsp' = rsp /\ xerr' = FALSE
                ELSE IF timedOut
                THEN /\ xpc' = "ret"
                     /\ xerr' = TRUE
                     /\ UNCHANGED <<lrsp, trace>>
                ELSE UNCHANGED <<xpc, xerr, lrsp, trace>>
    /\ UNCHANGED <<laneOff, nlimit, limitOk, listVars, lnpc, pidx, npts,
                   xmatch, lcmd, lparam, ssc, verdictVars>>

\* readLaneParameters issues its next command.
readLaneParametersCall ==
    /\ lnpc = "param"
    /\ LET c == ParamCmds[pidx]
       IN  Call([lcmd EXCEPT !.usage = 0, !.typ = c.typ,
                             !.payload = c.payload], TRUE, c.echo)
    /\ UNCHANGED <<laneOff, baseVars, listVars, lnpc, pidx, npts, lrsp, lparam, ssc, trace,
                   verdictVars>>

\* readLaneParameters gets the exchange's result: an error returns it from
\* MarginLane; the capabilities response fills ln.param.
readLaneParametersNext ==
    /\ lnpc = "param"
    /\ xpc = "ret"
    /\ xpc' = "idle"
    /\ lerr' = (lerr \/ xerr)
    /\ IF xerr
       THEN lnpc' = "ret" /\ UNCHANGED <<pidx, lparam>>
       ELSE /\ pidx' = pidx + 1
            /\ lnpc' = IF pidx = Len(ParamCmds) THEN "setlimit" ELSE "param"
            /\ lparam' =
                 IF lcmd.payload = RptControlCapabilities
                     /\ lcmd.typ = MarginTypeReport
                 THEN [ies |-> HasBit(lrsp.payload, MskIndErrorSampler),
                       srm |-> HasBit(lrsp.payload, MskSampleReportingMethod)]
                 ELSE lparam
    /\ UNCHANGED <<laneOff, baseVars, listVars, npts, xmatch, xerr, lcmd, lrsp, ssc, trace,
                   Pass, passIn, errOutOK, pstatus, owed>>

\* setErrLimit: Set Error Count Limit through lmrCmdRspEcho.
setErrLimitCall ==
    /\ lnpc = "setlimit"
    /\ \E errlimit \in {4} :
         Call([lcmd EXCEPT !.usage = 0, !.typ = MarginTypeSet,
                           !.payload = SetErrorCountLimit + errlimit],
              TRUE, TRUE)
    /\ lnpc' = "limit"
    /\ nlimit' = 0
    /\ limitOk' = FALSE
    /\ UNCHANGED <<laneOff, xrsp, listVars, pidx, npts, lrsp, lparam, ssc, trace,
                   verdictVars>>

\* A testAspect that goes on after a failed setErrLimit.
limitFailedNever(err) == FALSE

\* testAspect: "if err != nil { return err }" after setErrLimit.
limitFailed(err) == err

\* testAspect: a failed setErrLimit ends MarginLane; otherwise
\* determineMarginRange sets t.errOutOK and the aspect's margin points
\* follow.
setErrLimitNext ==
    /\ lnpc = "limit"
    /\ xpc = "ret"
    /\ xpc' = "idle"
    /\ lerr' = (lerr \/ xerr)
    /\ limitOk' = ~xerr
    /\ IF limitFailed(xerr)
       THEN lnpc' = "ret" /\ UNCHANGED errOutOK
       ELSE lnpc' = "margin" /\ errOutOK' \in BOOLEAN
    /\ UNCHANGED <<laneOff, xrsp, nlimit, listVars, pidx, npts, xmatch, xerr,
                   lcmd, lrsp, lparam, ssc, trace, Pass, passIn, pstatus, owed>>

\* A margin() that keeps only the latest point of a list.
withPointReplacing(list, steps) ==
    IF list = <<>> THEN <<steps>> ELSE [list EXCEPT ![Len(list)] = steps]

\* margin(): ln.tsteps = append(ln.tsteps, point), likewise ln.vsteps.
withPoint(list, steps) == Append(list, steps)

\* margin(): the new point joins ln.tsteps or ln.vsteps, then the step
\* command (Timing or Voltage, payload = offset) goes out through
\* lmrCmdRsp. The offsets of a lane's points are numbered 1, 2, ...
marginStepCall ==
    /\ lnpc = "margin"
    /\ \E VnotT \in {v \in BOOLEAN : (IF v THEN "V" ELSE "T") \in laneSpecs} :
         LET off == npts + 1
         IN  /\ tsteps' = IF VnotT THEN tsteps ELSE withPoint(tsteps, off)
             /\ vsteps' = IF VnotT THEN withPoint(vsteps, off) ELSE vsteps
             /\ Call([lcmd EXCEPT !.usage = 0,
                                   !.typ = IF VnotT THEN MarginTypeVoltage
                                           ELSE MarginTypeTiming,
                                   !.payload = off], TRUE, FALSE)
    /\ lnpc' = "stepping"
    /\ npts' = npts + 1
    /\ ssc' = FALSE
    /\ pstatus' = "S_UNKNOWN"
    /\ passIn' = Pass
    /\ UNCHANGED <<laneOff, baseVars, pidx, lrsp, lparam, trace, Pass, errOutOK, lerr,
                   owed, laneSpecs, lanepb>>

\* After a margin point the scan goes on to another point, the next aspect
\* starts with its setErrLimit, or MarginLane returns.
AfterPoint == IF npts < MaxPoints THEN {"margin", "setlimit", "ret"} ELSE {"ret"}

\* margin() gets the step command's result; on an error it returns the
\* point and the error to the scan.
marginStepNext ==
    /\ lnpc = "stepping"
    /\ xpc = "ret"
    /\ xpc' = "idle"
    /\ lerr' = (lerr \/ xerr)
    /\ lnpc' = IF xerr THEN "scan" ELSE "looping"
    /\ UNCHANGED <<laneOff, baseVars, listVars, pidx, npts, xmatch, xerr, lcmd, lrsp, lparam,
                   ssc, trace, Pass, passIn, errOutOK, pstatus, owed>>

\* margin(): one pass of the status loop. (The clock tests of the loop are
\* left open here; SpecPoint follows the clock.)
marginLoop ==
    /\ lnpc = "looping"
    /\ LET status == Field(lrsp.payload, StepMarginExecutionStatusUnit, 4)
       IN  \/ /\ status = StepMarginExecutionStatusNak
              /\ pstatus' = "S_NAK"
              /\ lnpc' = "count"
              /\ UNCHANGED <<ssc, lrsp>>
           \/ /\ status = StepMarginExecutionStatusErrorOut
              /\ pstatus' = "S_ERROR_OUT"
              /\ ssc' = TRUE
              /\ lnpc' = "count"
              /\ UNCHANGED lrsp
           \/ /\ status = StepMarginExecutionStatusSettingUp
              /\ pstatus' = "S_SETTING_UP"
              /\ \/ lnpc' = "count" /\ UNCHANGED <<ssc, lrsp>>
                 \/ /\ \E raw \in StatusWords(lcmd) : lrsp' = decode(raw)
                    /\ UNCHANGED <<ssc, lnpc>>
           \/ /\ status = StepMarginExecutionStatusMargining
              /\ pstatus' = "S_MARGINING"
              /\ \/ lnpc' = "count" /\ ssc' = TRUE /\ UNCHANGED lrsp
                 \/ /\ \E raw \in StatusWords(lcmd) : lrsp' = decode(raw)
                    /\ UNCHANGED <<ssc, lnpc>>
    /\ UNCHANGED <<laneOff, baseVars, listVars, pidx, npts, xpc, xmatch, xerr, lcmd, lparam,
                   trace, Pass, passIn, errOutOK, lerr, owed>>

\* margin(): the decision on ln.Pass after the sample count.
passDecision ==
    IF pstatus = "S_MARGINING" THEN Pass
    ELSE IF pstatus = "S_ERROR_OUT" /\ errOutOK THEN Pass
    ELSE FALSE

\* A margin() that derives the sample count only for rate reporting.
derivedCountRateOnly(param) == param.srm

\* margin(): ln.param.GetSampleReportingMethod() ||
\* !ln.param.GetIndErrorSampler(): the sample count is derived from the
\* actual dwell, not queried.
derivedCount(param) == param.srm \/ ~param.ies

\* margin(): the sample count. When the lane has an independent error
\* sampler and reports a count, Report Sample Count goes out through
\* lmrCmdRspBase(&cmd, false); otherwise the count is computed and the
\* decision on ln.Pass follows.
marginSampleCount ==
    /\ lnpc = "count"
    /\ IF ssc /\ ~derivedCount(lparam)
       THEN /\ Call([lcmd EXCEPT !.typ = MarginTypeReport,
                                 !.payload = RptSampleCount], FALSE, FALSE)
            /\ lnpc' = "counting"
            /\ UNCHANGED Pass
       ELSE /\ lnpc' = "clear"
            /\ Pass' = passDecision
            /\ UNCHANGED <<xpc, xmatch, xerr, lcmd>>
    /\ UNCHANGED <<laneOff, baseVars, listVars, pidx, npts, lrsp, lparam, ssc, trace, passIn,
                   errOutOK, pstatus, lerr, owed>>

\* margin() gets the result of Report Sample Count: an error returns the
\* point and the error at once, otherwise the decision on ln.Pass follows.
marginSampleCountNext ==
    /\ lnpc = "counting"
    /\ xpc = "ret"
    /\ xpc' = "idle"
    /\ IF xerr
       THEN lnpc' = "scan" /\ UNCHANGED Pass
       ELSE lnpc' = "clear" /\ Pass' = passDecision
    /\ UNCHANGED <<laneOff, baseVars, listVars, pidx, npts, xmatch, xerr, lcmd, lrsp, lparam,
                   ssc, trace, passIn, errOutOK, pstatus, lerr, owed>>

\* margin(): Clear Error Log, then Go To Normal Settings, both through
\* lmrCmdRspEcho.
marginClearCall ==
    /\ lnpc \in {"clear", "normal"}
    /\ Call([lcmd EXCEPT !.typ = MarginTypeSet,
                         !.payload = IF lnpc = "clear" THEN SetClearErrorLog
                                     ELSE SetGoToNormalSettings], TRUE, TRUE)
    /\ lnpc' = IF lnpc = "clear" THEN "clearing" ELSE "normalizing"
    /\ UNCHANGED <<laneOff, baseVars, listVars, pidx, npts, lrsp, lparam, ssc, trace,
                   verdictVars>>

marginClearNext ==
    /\ lnpc \in {"clearing", "normalizing"}
    /\ xpc = "ret"
    /\ xpc' = "idle"
    /\ lnpc' = IF xerr \/ lnpc = "normalizing" THEN "scan" ELSE "normal"
    /\ UNCHANGED <<laneOff, baseVars, listVars, pidx, npts, xmatch, xerr, lcmd, lrsp, lparam,
                   ssc, trace, verdictVars>>

\* margin() has returned to scanEye / testEyeSize: another point follows,
\* or the aspect ends with outputEyeMeasurement (which clears ln.Pass when
\* the measured eye is smaller than eye_size) and either the next aspect
\* starts or MarginLane returns.
scanNext ==
    /\ lnpc = "scan"
    /\ \E nx \in AfterPoint, eyeTooSmall \in BOOLEAN :
         /\ lnpc' = nx
         /\ Pass' = IF nx # "margin" /\ eyeTooSmall THEN FALSE ELSE Pass
         /\ lanepb' = IF nx = "ret" THEN [lanepb EXCEPT !.made = TRUE]
                       ELSE lanepb
    /\ UNCHANGED <<laneOff, baseVars, pidx, npts, xpc, xmatch, xerr, lcmd, lrsp,
                   lparam, ssc, trace, passIn, errOutOK, pstatus, lerr, owed,
                   tsteps, vsteps, laneSpecs>>

\* GatherResult, once the lane's task has ended: nil when ln.lane is nil,
\* otherwise the lists of the aspects whose TestSpec the lane holds.
GatherResult ==
    /\ lnpc = "ret"
    /\ lnpc' = "gathered"
    /\ lanepb' =
         IF ~lanepb.made THEN lanepb
         ELSE [lanepb EXCEPT
                 !.gathered = TRUE,
                 !.TimingMargins = IF "T" \in laneSpecs THEN tsteps ELSE @,
                 !.VoltageMargins = IF "V" \in laneSpecs THEN vsteps ELSE @]
    /\ UNCHANGED <<laneOff, baseVars, pidx, npts, xpc, xmatch, xerr, lcmd,
                   lrsp, lparam, ssc, trace, verdictVars, tsteps, vsteps,
                   laneSpecs>>

\* One lane of a DSP or USP receiver about to run MarginLane.
InitLane ==
    /\ CodecIdle
    /\ ConcIdle
    /\ AspectIdle
    /\ lnpc = "param"
    /\ pidx = 1
    /\ npts = 0
    /\ xpc = "idle"
    /\ xmatch = FALSE
    /\ xerr = FALSE
    /\ \E r \in {R_DSP_A1, R_USP_F6} : lcmd = [NoFields EXCEPT !.rec = r]
    /\ lrsp = NoFields
    /\ lparam = [ies |-> FALSE, srm |-> FALSE]
    /\ ssc = FALSE
    /\ trace = <<>>
    /\ Pass = TRUE
    /\ passIn = TRUE
    /\ errOutOK = FALSE
    /\ pstatus = "S_UNKNOWN"
    /\ lerr = FALSE
    /\ owed = "none"
    /\ BaseIdle
    /\ tsteps = <<>>
    /\ vsteps = <<>>
    /\ laneSpecs \in {{"T"}, {"T", "V"}}
    /\ lanepb = NoLane

NextLane ==
    \/ lmrCmdRspBaseWrite
    \/ lmrCmdRspBaseRead
    \/ readLaneParametersCall
    \/ readLaneParametersNext
    \/ setErrLimitCall
    \/ setErrLimitNext
    \/ marginStepCall
    \/ marginStepNext
    \/ marginLoop
    \/ marginSampleCount
    \/ marginSampleCountNext
    \/ marginClearCall
    \/ marginClearNext
    \/ scanNext
    \/ GatherResult

SpecLane == InitLane /\ [][NextLane]_vars

\* ------------------------------------------------------------------------
\* SpecPoint: one margin point against the clock
\* ------------------------------------------------------------------------
\* Times are in milliseconds. calculateDwellTime sets the aspect's dwell,
\* the step command is accepted and margin() polls the status, sleeping
\* marginWait between two reads.
MaxPolls == 4

\* What a time.Sleep(marginWait) followed by pci.ReadWord may last beyond
\* marginWait (the scheduler, and the wait for the config-space mutex).
SleepSlack == 497

marginWait == 3

marginTimeout == 1000

\* t.bitCount / t.sps as a duration, for the sample counts, sampling rates
\* and link speeds of the run.
DerivedDwells == {0, marginWait, 500}

\* t.sps, the samples per second of the aspect, in bits per ms.
SpsValues == {1, 64}

\* TestSpec.dwell: unset, or a duration.
SpecDwells == {Nil, marginWait, marginTimeout}

\* A status loop that gives up on Setting Up after marginWait instead of
\* marginTimeout.
timedOutAfterWait(e) == e > marginWait

\* margin(): time.Since(t0) > marginTimeout.
timedOut(e) == e > marginTimeout

\* calculateDwellTime: t.dwell is the derived dwell; t.spec.Dwell takes the
\* derived dwell when it is unset or smaller, and is kept otherwise.
calculateDwellTime ==
    /\ tpc = "dwell"
    /\ sps' \in SpsValues
    /\ \E d \in DerivedDwells :
         /\ tdwell' = d
         /\ specDwell' = IF specDwell = Nil \/ d > specDwell THEN d
                         ELSE specDwell
    /\ tpc' = "step"
    /\ UNCHANGED <<codecVars, cmdVars, scanVars, concVars, elapsed,
                   dwellStart, dwellActual, polls, samples>>

\* margin(): lmrCmdRsp(&cmd) returned a response to the step command;
\* t0 := time.Now(), dwellActual = 0, setSampleCount := false.
marginAccepted ==
    /\ tpc = "step"
    /\ \E raw \in StatusWords(lcmd) :
         /\ Matches(decode(raw), lcmd, FALSE)
         /\ lrsp' = decode(raw)
    /\ elapsed' = 0
    /\ dwellStart' = Nil
    /\ dwellActual' = 0
    /\ ssc' = FALSE
    /\ tpc' = "looping"
    /\ UNCHANGED <<codecVars, scanVars, concVars, listVars, baseVars, lnpc, pidx, npts,
                   xpc, xmatch, xerr, lcmd, lparam, trace, verdictVars, tdwell,
                   specDwell, polls, sps, samples>>

\* margin(): time.Sleep(marginWait), then rsp.decode(pci.ReadWord(...)).
SleepAndRead ==
    /\ polls < MaxPolls
    /\ polls' = polls + 1
    /\ \E slack \in {0, SleepSlack} : elapsed' = elapsed + marginWait + slack
    /\ \E raw \in StatusWords(lcmd) : lrsp' = decode(raw)

\* margin(): one pass of the status loop, with its clock tests.
marginLoopTimed ==
    /\ tpc = "looping"
    /\ LET status == Field(lrsp.payload, StepMarginExecutionStatusUnit, 4)
       IN  \/ /\ status = StepMarginExecutionStatusNak
              /\ pstatus' = "S_NAK"
              /\ tpc' = "done"
              /\ UNCHANGED <<dwellStart, dwellActual, ssc, lrsp, elapsed,
                             polls>>
           \/ /\ status = StepMarginExecutionStatusErrorOut
              /\ dwellActual' = IF dwellStart # Nil THEN elapsed - dwellStart
                                ELSE dwellActual
              /\ pstatus' = "S_ERROR_OUT"
              /\ ssc' = TRUE
              /\ tpc' = "done"
              /\ UNCHANGED <<dwellStart, lrsp, elapsed, polls>>
           \/ /\ status = StepMarginExecutionStatusSettingUp
              /\ pstatus' = "S_SETTING_UP"
              /\ IF timedOut(elapsed)
                 THEN /\ tpc' = "done"
                      /\ UNCHANGED <<lrsp, elapsed, polls>>
                 ELSE /\ SleepAndRead
                      /\ UNCHANGED tpc
              /\ UNCHANGED <<dwellStart, dwellActual, ssc>>
           \/ /\ status = StepMarginExecutionStatusMargining
              /\ dwellStart' = IF dwellStart = Nil THEN elapsed
                               ELSE dwellStart
              /\ dwellActual' = elapsed - dwellStart'
              /\ pstatus' = "S_MARGINING"
              /\ IF dwellActual' >= tdwell
                 THEN /\ ssc' = TRUE
                      /\ tpc' = "done"
                      /\ UNCHANGED <<lrsp, elapsed, polls>>
                 ELSE /\ SleepAndRead
                      /\ UNCHANGED <<ssc, tpc>>
    /\ UNCHANGED <<codecVars, scanVars, concVars, listVars, baseVars, lnpc, pidx, npts,
                   xpc, xmatch, xerr, lcmd, lparam, trace, Pass, passIn, errOutOK,
                   lerr, owed, tdwell, specDwell, sps, samples>>

MskSampleCount == 127

\* SampleThresholds[n] is the least whole number of bits b with
\* 3 * log2(b) >= n - 1/2.
SampleThresholds ==
    <<2, 2, 2, 3, 3, 4, 5, 6, 8, 9, 12, 15, 18, 23, 29, 36, 46, 58, 72, 91,
      115, 144, 182, 229, 288, 363, 457, 575, 725, 913, 1150, 1449, 1825,
      2299, 2897, 3650, 4598, 5793, 7299, 9196, 11586, 14597, 18391, 23171,
      29193, 36781, 46341, 58386, 73562, 92682, 116772, 147124, 185364,
      233544, 294247, 370728, 467088, 588494, 741456, 934176>>

\* uint32(math.Round(math.Log2(bitCount) * 3)) for bitCount >= 1.
roundLog2x3(bitCount) ==
    Cardinality({n \in 1 .. Len(SampleThresholds) :
                   SampleThresholds[n] <= bitCount})

\* A margin() without the minimum for a bit count of 0: the conversion of
\* -Inf brings 0.
derivedSamplesNoMinimum(bitCount) ==
    IF bitCount = 0 THEN 0 ELSE roundLog2x3(bitCount)

\* margin(): the sample count derived from bitCount = actual dwell * sps;
\* 18 when bitCount is 0.
derivedSamples(bitCount) ==
    IF bitCount = 0 THEN 18 ELSE roundLog2x3(bitCount)

\* margin(): the sample count after the status loop. With setSampleCount
\* it is derived from the actual dwell, or Report Sample Count is queried
\* and either fails, which returns the point at once, or brings the count.
marginSampleCountTimed ==
    /\ tpc = "done"
    /\ IF ~ssc
       THEN tpc' = "counted" /\ UNCHANGED samples
       ELSE IF derivedCount(lparam)
       THEN /\ samples' = derivedSamples(dwellActual * sps)
            /\ tpc' = "counted"
       ELSE \/ tpc' = "returned" /\ UNCHANGED samples
            \/ /\ \E p \in RspPayloads([lcmd EXCEPT
                                           !.typ = MarginTypeReport,
                                           !.payload = RptSampleCount]) :
                     samples' = p % (MskSampleCount + 1)
               /\ tpc' = "counted"
    /\ UNCHANGED <<codecVars, cmdVars, scanVars, concVars, elapsed,
                   dwellStart, dwellActual, tdwell, specDwell, polls, sps>>

\* One aspect of a lane before calculateDwellTime, with the step command
\* of its margin point composed.
InitPoint ==
    /\ CodecIdle
    /\ ConcIdle
    /\ ScanIdle
    /\ lnpc = "off"
    /\ pidx = 1
    /\ npts = 0
    /\ xpc = "idle"
    /\ xmatch = FALSE
    /\ xerr = FALSE
    /\ \E VnotT \in BOOLEAN :
         lcmd = [payload |-> 1, usage |-> 0,
                 typ |-> IF VnotT THEN MarginTypeVoltage ELSE MarginTypeTiming,
                 rec |-> R_USP_F6]
    /\ lrsp = NoFields
    /\ \E ies \in BOOLEAN : lparam = [ies |-> ies, srm |-> FALSE]
    /\ ssc = FALSE
    /\ trace = <<>>
    /\ Pass = TRUE
    /\ passIn = TRUE
    /\ errOutOK = FALSE
    /\ pstatus = "S_UNKNOWN"
    /\ lerr = FALSE
    /\ owed = "none"
    /\ ListIdle
    /\ BaseIdle
    /\ tpc = "dwell"
    /\ elapsed = 0
    /\ dwellStart = Nil
    /\ dwellActual = 0
    /\ tdwell = 0
    /\ specDwell \in SpecDwells
    /\ polls = 0
    /\ sps = 0
    /\ samples = Nil

NextPoint ==
    \/ calculateDwellTime
    \/ marginAccepted
    \/ marginLoopTimed
    \/ marginSampleCountTimed

SpecPoint == InitPoint /\ [][NextPoint]_vars

\* ------------------------------------------------------------------------
\* SpecScan: one aspect's margin range and eye scan
\* ------------------------------------------------------------------------
\* testAspect runs determineMarginRange and scanEye on one aspect of one
\* lane. A margin() call is taken as a whole here: it returns a point whose
\* status is Margining (the point passes) or anything else. Offsets are
\* uint16, the TestSpec's fields uint32.
MaxSteps == 3

\* The margin() calls of one eye-size test that are followed.
MaxCalls == 6

VoltageDirMask == 128

TimingDirMask == 64

\* uint16(x)
U16(x) == x % Word16

\* offset | dirmask
OrMask(x, mask) == IF Field(x, mask, 2) = 1 THEN x ELSE x + mask

\* offset &^ dirmask
AndNotMask(x, mask) == IF Field(x, mask, 2) = 1 THEN x - mask ELSE x

\* TestSpec.start_offset, target_offset and step: unset or a uint32;
\* TestSpec.eye_size: unset or a size in hundredths of UI (of a volt).
StartOffsets == {Nil, 0, 1, Word16 + 1}

TargetOffsets == {Nil, 0, 1, MaxSteps + 1}

StepValues == {Nil, 0, 1, 2, Word16 - 1, Word16}

EyeSizes == {Nil, 10, 50, 150, 4300}

ScanSpecs ==
    [start_offset : StartOffsets, target_offset : TargetOffsets,
     step : StepValues, eye_size : EyeSizes]

\* The lane's parameters as prepareMarginTests copies them into the
\* aspect: the aspect, its number of steps, its maximum offset in
\* hundredths, its independent direction control, and the lane's
\* independent error sampler.
LaneRuns ==
    {[VnotT |-> FALSE, steps |-> MaxSteps, maxOffset |-> 50, indDir |-> TRUE,
      ies |-> TRUE],
     [VnotT |-> FALSE, steps |-> MaxSteps, maxOffset |-> 50, indDir |-> TRUE,
      ies |-> FALSE],
     [VnotT |-> TRUE, steps |-> MaxSteps, maxOffset |-> 50, indDir |-> FALSE,
      ies |-> FALSE],
     [VnotT |-> TRUE, steps |-> 1, maxOffset |-> 20, indDir |-> FALSE,
      ies |-> TRUE],
     [VnotT |-> FALSE, steps |-> 0, maxOffset |-> 50, indDir |-> TRUE,
      ies |-> TRUE]}

\* determineMarginRange: t.step.
rangeStep(spec) ==
    IF spec.step = Nil THEN 1
    ELSE IF U16(spec.step) = 0 THEN 1
    ELSE U16(spec.step)

startWithoutTarget(spec) ==
    spec.target_offset = Nil /\ spec.start_offset # Nil

\* float32(target)*2.0*t.maxOffset < eye_size*float32(t.steps), with both
\* sides in hundredths. GetEyeSize() of an unset eye_size is 0.
targetSmallerThanEye(spec, t) ==
    \/ spec.target_offset = Nil
    \/ spec.target_offset * 2 * t.maxOffset
         < (IF spec.eye_size = Nil THEN 0 ELSE spec.eye_size) * t.steps

\* A range that leaves a target_offset above the lane's capability alone.
clampTargetNever(target, steps) == target

\* determineMarginRange: a target_offset greater than t.steps becomes
\* t.steps.
clampTarget(target, steps) == IF target > steps THEN steps ELSE target

\* A range that leaves a start beyond the target alone.
clampStartNever(start, target) == start

\* determineMarginRange: a start greater than the target becomes the
\* target.
clampStart(start, target) == IF start > target THEN target ELSE start

\* determineMarginRange(t), as the aspect it leaves behind. specTarget is
\* *t.spec.TargetOffset after the call.
determineMarginRange(spec, t) ==
    LET cleared == [t EXCEPT !.eyeSizeMode = FALSE, !.targetMode = FALSE,
                             !.eyeScanMode = FALSE, !.untilFail = FALSE,
                             !.errOutOK = FALSE, !.target = 0, !.start = 0,
                             !.step = rangeStep(spec),
                             !.specTarget = spec.target_offset]
    IN  IF spec.eye_size # Nil /\ ~startWithoutTarget(spec)
           /\ targetSmallerThanEye(spec, t)
        THEN [cleared EXCEPT
                !.eyeSizeMode = TRUE,
                !.errOutOK = TRUE,
                !.start = U16((spec.eye_size * t.steps + t.maxOffset - 1)
                                \div t.maxOffset),
                !.target = IF spec.target_offset # Nil
                           THEN U16(spec.target_offset) ELSE 0]
        ELSE LET tgt == IF spec.target_offset # Nil
                        THEN clampTarget(spec.target_offset, t.steps)
                        ELSE Nil
                 ranged ==
                     IF spec.target_offset # Nil
                     THEN [cleared EXCEPT
                             !.specTarget = tgt,
                             !.target = U16(tgt),
                             !.targetMode = (spec.start_offset = Nil)]
                     ELSE IF spec.start_offset # Nil
                     THEN [cleared EXCEPT !.untilFail = TRUE,
                                          !.target = U16(t.steps)]
                     ELSE cleared
             IN  IF spec.start_offset # Nil
                 THEN [ranged EXCEPT
                         !.eyeScanMode = TRUE,
                         !.errOutOK = TRUE,
                         !.start = clampStart(U16(spec.start_offset),
                                              ranged.target)]
                 ELSE [ranged EXCEPT !.start = ranged.target]

\* testAspect: an empty spec is skipped and a failed setErrLimit returns;
\* otherwise determineMarginRange sets the range and testEyeSize (with
\* offset := t.start/2, then offset = t.start - offset at RedoPos) or
\* scanEye (with offset := t.start) is entered.
testAspect ==
    /\ spc = "aspect"
    /\ IF tspec.start_offset = Nil /\ tspec.target_offset = Nil
          /\ tspec.eye_size = Nil
       THEN /\ spc' = "done"
            /\ UNCHANGED <<asp, offset>>
       ELSE \E limitErr \in BOOLEAN :
              IF limitErr
              THEN /\ spc' = "done"
                   /\ UNCHANGED <<asp, offset>>
              ELSE /\ asp' = determineMarginRange(tspec, asp)
                   /\ offset' = IF asp'.eyeSizeMode
                                THEN U16(asp'.start - asp'.start \div 2)
                                ELSE asp'.start
                   /\ spc' = IF asp'.eyeSizeMode THEN "epos" ELSE "pos"
    /\ UNCHANGED <<codecVars, cmdVars, timeVars, concVars, tspec, mp, pt,
                   passPos, passNeg, calls>>

\* A scan that margins a side whatever it recorded.
maySideAlways(ies, failPoint) == TRUE

\* scanEye: ln.param.IndErrorSampler || t.mp[side][fail] == nil.
maySide(ies, failPoint) == ies \/ failPoint = Nil

\* t.dirmask
DirMask == IF asp.VnotT THEN VoltageDirMask ELSE TimingDirMask

\* The status margin() returns a point with: Margining, Error Out, or
\* any other (NAK, Setting Up after the timeout, none after a failed step
\* command).
PointStatuses == {"S_MARGINING", "S_ERROR_OUT", "S_NAK"}

\* margin(): point.Direction. With independent direction control the
\* direction bit of the offset decides, else the point stands for both
\* directions (D_LR, D_UD).
pointDirection(payload) ==
    IF asp.indDir
    THEN IF Field(payload, DirMask, 2) = 0 THEN "D_POS" ELSE "D_NEG"
    ELSE "D_BOTH"

\* The point margin(payload, t) appends and returns. payload is the
\* payload of the step command, side the loop that made the call.
Point(payload, side, st) ==
    [payload |-> payload,
     steps |-> AndNotMask(payload, DirMask),
     side |-> side,
     dir |-> pointDirection(payload),
     status |-> st,
     pass |-> (st = "S_MARGINING")]

\* margin(): ln.Pass after a point of status st.
pointPass(st) ==
    IF st = "S_MARGINING" THEN Pass
    ELSE IF st = "S_ERROR_OUT" /\ asp.errOutOK THEN Pass
    ELSE FALSE

\* The lane's variables other than ln.Pass and ln.param.
scanOff ==
    <<lnpc, pidx, npts, xpc, xmatch, xerr, lcmd, lrsp, ssc, trace, passIn,
      errOutOK, pstatus, lerr, owed, listVars, baseVars, lparam>>

\* scanEye: the positive side of one pass of the loop.
scanPositive ==
    /\ spc = "pos"
    /\ IF maySide(lparam.ies, mp["pos"]["fail"])
       THEN \E st \in PointStatuses :
              /\ calls' = Append(calls, Point(offset, "pos", st))
              /\ Pass' = pointPass(st)
              /\ pt' = Len(calls) + 1
              /\ passPos' = (st = "S_MARGINING")
              /\ mp' = IF mp["pos"]["fail"] # Nil THEN mp
                       ELSE [mp EXCEPT
                               !["pos"][IF passPos' THEN "pass" ELSE "fail"]
                                   = pt']
       ELSE /\ passPos' = FALSE
            /\ pt' = Nil
            /\ UNCHANGED <<calls, mp, Pass>>
    /\ passNeg' = FALSE
    /\ spc' = "neg"
    /\ UNCHANGED <<codecVars, scanOff, timeVars, concVars, tspec, asp,
                   offset>>

\* scanEye: the negative side of the pass.
scanNegative ==
    /\ spc = "neg"
    /\ IF asp.indDir /\ maySide(lparam.ies, mp["neg"]["fail"])
       THEN \E st \in PointStatuses :
              /\ calls' = Append(calls,
                                 Point(OrMask(offset, DirMask), "neg", st))
              /\ Pass' = pointPass(st)
              /\ pt' = Len(calls) + 1
              /\ passNeg' = (st = "S_MARGINING")
       ELSE /\ passNeg' = passPos
            /\ UNCHANGED <<calls, pt, Pass>>
    /\ mp' = IF mp["neg"]["fail"] # Nil THEN mp
             ELSE [mp EXCEPT !["neg"][IF passNeg' THEN "pass" ELSE "fail"] = pt']
    /\ spc' = "next"
    /\ UNCHANGED <<codecVars, scanOff, timeVars, concVars, tspec, asp,
                   offset, passPos>>

\* scanEye: the end of the pass: leave at the target or, until-fail, when
\* neither side passed; otherwise offset += t.step, capped at the target.
scanAdvance ==
    /\ spc = "next"
    /\ IF offset >= asp.target THEN spc' = "measure" /\ UNCHANGED offset
       ELSE IF asp.untilFail /\ ~passPos /\ ~passNeg
       THEN spc' = "measure" /\ UNCHANGED offset
       ELSE /\ offset' = IF U16(offset + asp.step) > asp.target
                         THEN asp.target
                         ELSE U16(offset + asp.step)
            /\ spc' = "pos"
    /\ UNCHANGED <<codecVars, cmdVars, timeVars, concVars, tspec, asp, mp,
                   pt, passPos, passNeg, calls>>

\* testEyeSize: offset -= t.step, raised to the target when below it.
stepDown(off, t) ==
    IF U16(off - t.step) < t.target THEN t.target ELSE U16(off - t.step)

\* testEyeSize: one pass of the positive loop (entered at RedoPos). Without
\* independent direction control the point counts for both sides and the
\* test returns. A passing point ends the loop, a failing one goes down to
\* the target; after the loop the test returns when passNeg is set, else
\* the negative loop starts at t.start - offset. With keep the points are
\* kept in calls, at most MaxCalls of them; without, a point is only known
\* to be recorded (point 0).
eyePositiveStep(keep) ==
    /\ spc = "epos"
    /\ keep => Len(calls) < MaxCalls
    /\ \E st \in PointStatuses :
         /\ calls' = IF keep THEN Append(calls, Point(offset, "pos", st))
                     ELSE calls
         /\ Pass' = pointPass(st)
         /\ pt' = IF keep THEN Len(calls) + 1 ELSE 0
         /\ passPos' = (st = "S_MARGINING")
    /\ IF ~asp.indDir
       THEN /\ passNeg' = passPos'
            /\ mp' = [mp EXCEPT
                        !["pos"][IF passPos' THEN "pass" ELSE "fail"] = pt',
                        !["neg"][IF passPos' THEN "pass" ELSE "fail"] = pt']
            /\ spc' = "measure"
            /\ UNCHANGED offset
       ELSE /\ mp' = [mp EXCEPT
                        !["pos"][IF passPos' THEN "pass" ELSE "fail"] = pt']
            /\ UNCHANGED passNeg
            /\ IF passPos' \/ offset <= asp.target
               THEN IF passNeg
                    THEN spc' = "measure" /\ UNCHANGED offset
                    ELSE spc' = "eneg" /\ offset' = U16(asp.start - offset)
               ELSE spc' = "epos" /\ offset' = stepDown(offset, asp)
    /\ UNCHANGED <<codecVars, scanOff, timeVars, concVars, tspec, asp>>

eyePositive == eyePositiveStep(TRUE)

\* testEyeSize: passPos && passNeg && t.mp[pos][fail] == nil &&
\* t.mp[neg][fail] != nil.
redoPos(pPos, pNeg, points) ==
    pPos /\ pNeg /\ points["pos"]["fail"] = Nil /\ points["neg"]["fail"] # Nil

\* testEyeSize: one pass of the negative loop. After the loop the positive
\* scan is redone from t.start - offset, or the test returns.
eyeNegativeStep(keep) ==
    /\ spc = "eneg"
    /\ keep => Len(calls) < MaxCalls
    /\ \E st \in PointStatuses :
         /\ calls' = IF keep
                     THEN Append(calls,
                                 Point(OrMask(offset, DirMask), "neg", st))
                     ELSE calls
         /\ Pass' = pointPass(st)
         /\ pt' = IF keep THEN Len(calls) + 1 ELSE 0
         /\ passNeg' = (st = "S_MARGINING")
    /\ mp' = [mp EXCEPT !["neg"][IF passNeg' THEN "pass" ELSE "fail"] = pt']
    /\ IF passNeg' \/ offset <= asp.target
       THEN IF redoPos(passPos, passNeg', mp')
            THEN spc' = "epos" /\ offset' = U16(asp.start - offset)
            ELSE spc' = "measure" /\ UNCHANGED offset
       ELSE spc' = "eneg" /\ offset' = stepDown(offset, asp)
    /\ UNCHANGED <<codecVars, scanOff, timeVars, concVars, tspec, asp,
                   passPos>>

eyeNegative == eyeNegativeStep(TRUE)

\* The steps of the point t.mp[side][pass], 0 when there is none.
passSteps(side) ==
    IF mp[side]["pass"] = Nil THEN 0 ELSE calls[mp[side]["pass"]].steps

\* An eye size check that also fails an eye of exactly eye_size.
sizeBelowOrEqual(total, need) == total <= need

\* outputEyeSizeArtifact: totalSize < t.spec.GetEyeSize().
sizeBelow(total, need) == total < need

\* outputEyeSizeArtifact: totalSize < eye_size, where totalSize adds the
\* values steps * maxOffset / num_steps of the two max-passing points. Both
\* sides of the test are taken times num_steps, in hundredths. With
\* num_steps = 0 the value of a point is NaN or +Inf and the test is false.
eyeTooSmall ==
    IF asp.steps = 0
    THEN /\ mp["pos"]["pass"] = Nil
         /\ mp["neg"]["pass"] = Nil
         /\ sizeBelow(0, tspec.eye_size)
    ELSE sizeBelow((passSteps("pos") + passSteps("neg")) * asp.maxOffset,
                   tspec.eye_size * asp.steps)

\* outputEyeMeasurement: in eye-scan and eye-size mode
\* outputEyeSizeArtifact clears ln.Pass when eye_size is set and the
\* measured eye is smaller.
outputEyeMeasurement ==
    /\ spc = "measure"
    /\ Pass' = IF /\ asp.eyeScanMode \/ asp.eyeSizeMode
                  /\ tspec.eye_size # Nil
                  /\ eyeTooSmall
               THEN FALSE ELSE Pass
    /\ spc' = "done"
    /\ UNCHANGED <<codecVars, scanOff, timeVars, concVars, tspec, asp,
                   offset, mp, pt, passPos, passNeg, calls>>

\* One aspect of a lane whose parameters are read, before testAspect.
InitScanOf(specs) ==
    /\ CodecIdle
    /\ ConcIdle
    /\ TimeIdle
    /\ lnpc = "off"
    /\ pidx = 1
    /\ npts = 0
    /\ xpc = "idle"
    /\ xmatch = FALSE
    /\ xerr = FALSE
    /\ lcmd = NoFields
    /\ lrsp = NoFields
    /\ ssc = FALSE
    /\ trace = <<>>
    /\ Pass = TRUE
    /\ passIn = TRUE
    /\ errOutOK = FALSE
    /\ pstatus = "S_UNKNOWN"
    /\ lerr = FALSE
    /\ owed = "none"
    /\ ListIdle
    /\ BaseIdle
    /\ \E run \in LaneRuns :
         /\ lparam = [ies |-> run.ies, srm |-> FALSE]
         /\ asp = [NoAspect EXCEPT !.VnotT = run.VnotT, !.steps = run.steps,
                                   !.maxOffset = run.maxOffset,
                                   !.indDir = run.indDir]
    /\ tspec \in specs
    /\ spc = "aspect"
    /\ offset = 0
    /\ mp = NoPoints
    /\ pt = Nil
    /\ passPos = FALSE
    /\ passNeg = FALSE
    /\ calls = <<>>

InitScan == InitScanOf(ScanSpecs)

NextScan ==
    \/ testAspect
    \/ scanPositive
    \/ scanNegative
    \/ scanAdvance
    \/ eyePositive
    \/ eyeNegative
    \/ outputEyeMeasurement

SpecScan == InitScan /\ [][NextScan]_vars

\* ------------------------------------------------------------------------
\* SpecScanFair: one aspect's scan, every margin point returning
\* ------------------------------------------------------------------------
\* The scans of testAspect up to outputEyeMeasurement. margin() always
\* returns (its exchanges and its status loop are bounded by CmdTimeout
\* and the dwell), so a scan that can take a step eventually takes it. The
\* points of testEyeSize are not kept, so that the loop's state is its
\* offset and what it recorded.
FairSteps == {Nil, 1, Word16 \div 2}

FairSpecs ==
    [start_offset : {Nil, 1}, target_offset : {Nil, 0, 1}, step : FairSteps,
     eye_size : {Nil, 10, 50, 150}]

InitScanFair == InitScanOf(FairSpecs)

eyePositiveFree == eyePositiveStep(FALSE)

eyeNegativeFree == eyeNegativeStep(FALSE)

NextScanFair ==
    \/ testAspect
    \/ scanPositive
    \/ scanNegative
    \/ scanAdvance
    \/ eyePositiveFree
    \/ eyeNegativeFree

SpecScanFair == InitScanFair /\ [][NextScanFair]_vars /\ WF_vars(NextScanFair)

\* ------------------------------------------------------------------------
\* The capability walkers: getLMRcapability and getPcieCapOffset
\* ------------------------------------------------------------------------
\* The capability headers of a config space that are followed.
MaxNodes == 3

PCI_EXT_CAP_ID_LMR == 39

PCI_CAP_ID_EXP == 16

\* getLMRcapability's CapabilityStart.
ExtCapabilityStart == 256

\* The offsets that hold a header: extended capabilities from 0x100 on,
\* capabilities of the base config space from 0x40 on.
NodeAddrs(kind) ==
    IF kind = "lmr" THEN {ExtCapabilityStart * k : k \in 1..MaxNodes}
    ELSE {64 + 16 * (k - 1) : k \in 1..MaxNodes}

\* Next pointers: none, a header's offset, or one with the low bits set.
NextPtrs(kind) ==
    {0} \cup NodeAddrs(kind)
        \cup {a + 3 : a \in {b \in NodeAddrs(kind) : b <= 256}}

\* The headers a config space may hold: a 32-bit extended capability header
\* (ID in bits 15:0, version in 19:16, next in 31:20) or a 16-bit
\* capability header (ID in bits 7:0, next in 15:8).
Headers(kind) ==
    IF kind = "lmr"
    THEN {id + 65536 + nx * 1048576 :
             id \in {PCI_EXT_CAP_ID_LMR, 11}, nx \in NextPtrs(kind)}
    ELSE {id + nx * 256 : id \in {PCI_CAP_ID_EXP, 5}, nx \in NextPtrs(kind)}

\* hdr & CapabilityMask.
capId(hdr) == hdr % 256

\* (hdr >> NextPos) & AddrMask, cut to uint8 by getPcieCapOffset.
nextAddr(kind, hdr) ==
    LET sh == IF kind = "lmr" THEN hdr \div 1048576 ELSE hdr \div 256
        masked == ((sh % 4096) \div 4) * 4
    IN  IF kind = "lmr" THEN masked ELSE masked % 256

\* The ID a walker looks for.
wantedId(kind) ==
    IF kind = "lmr" THEN PCI_EXT_CAP_ID_LMR ELSE PCI_CAP_ID_EXP

\* A walker that never finds its chain looping.
beenNever(b, addr) == FALSE

\* been[addr].
beenAt(b, addr) == addr \in b

\* One pass of a walker's loop: the loop ends at addr = 0; else the header
\* at addr is read, a matching ID returns addr, and otherwise addr is
\* marked and the next pointer taken, which returns the loop error when
\* its target is marked.
walk(kind) ==
    /\ wkind = kind
    /\ wret = "run"
    /\ IF waddr = 0
       THEN /\ wret' = "notfound"
            /\ UNCHANGED <<waddr, been, wseen, wout>>
       ELSE LET hdr == wcfg.node[waddr] IN
            /\ wseen' = Append(wseen, waddr)
            /\ IF capId(hdr) = wantedId(kind)
               THEN /\ wret' = "found"
                    /\ wout' = waddr
                    /\ UNCHANGED <<waddr, been>>
               ELSE /\ been' = been \cup {waddr}
                    /\ waddr' = nextAddr(kind, hdr)
                    /\ wret' = IF beenAt(been', waddr') THEN "loop" ELSE "run"
                    /\ UNCHANGED wout
    /\ UNCHANGED <<wordVars, lts, width, lnksta2, cfgSpecs, bdfEmpty, wkind,
                   wcfg, enumVars, trainVars, regVars, linkVars, laneVars,
                   procVars>>

getLMRcapability == walk("lmr")

getPcieCapOffset == walk("pcie")

\* A config space and the walker started on it: getLMRcapability at 0x100,
\* getPcieCapOffset at the byte read from PCI_CAPABILITY_LIST.
InitWalk ==
    /\ CodecIdle
    /\ CmdIdle
    /\ AspectIdle
    /\ lts = {}
    /\ width = [l \in Links |-> 0]
    /\ lnksta2 = [l \in Links |-> 0]
    /\ cfgSpecs = <<>>
    /\ bdfEmpty = FALSE
    /\ reg = [l \in Links |-> [p \in Ports |-> DefaultReg]]
    /\ mpc = "off"
    /\ TasksStart
    /\ EnumIdle
    /\ wkind \in {"lmr", "pcie"}
    /\ \E first \in {0} \cup NodeAddrs(wkind) :
       \E node \in [NodeAddrs(wkind) -> Headers(wkind)] :
         /\ wcfg = [ptr |-> IF wkind = "lmr" THEN ExtCapabilityStart
                            ELSE first,
                    node |-> node]
         /\ wkind = "lmr" => first = 0
    /\ waddr = wcfg.ptr
    /\ been = {}
    /\ wseen = <<>>
    /\ wret = "run"
    /\ wout = 0

NextWalk ==
    \/ getLMRcapability
    \/ getPcieCapOffset

SpecWalk == InitWalk /\ [][NextWalk]_vars

\* ------------------------------------------------------------------------
\* getLinks and the launch of the links by MarginLinks
\* ------------------------------------------------------------------------
\* The devices of a scan that are followed.
MaxDevs == 2

\* The LnkSta speed encoding of Gen3.
Speed8G == 3

Speed16G == 4

Speed32G == 5

\* What getLinks reads of a port: whether getPcieCapOffset and
\* getLMRcapability find their capability, and the LnkSta speed.
PortInfo(pcie, speed, lmr) == [pcie |-> pcie, speed |-> speed, lmr |-> lmr]

GoodPort == PortInfo(TRUE, Speed16G, TRUE)

\* A device of the scan: sel is vidChk && didChk && busChk && pf0Chk,
\* typeOk the port type test, dspOk whether FindDSP resolves the link
\* partner, usp and dsp what the two ports read.
DevInfo(sel, typeOk, dspOk, usp, dsp) ==
    [sel |-> sel, typeOk |-> typeOk, dspOk |-> dspOk, usp |-> usp, dsp |-> dsp]

DevKinds ==
    {DevInfo(TRUE, TRUE, TRUE, GoodPort, GoodPort),
     DevInfo(TRUE, TRUE, TRUE, PortInfo(TRUE, Speed32G, TRUE),
             PortInfo(TRUE, Speed32G, TRUE)),
     DevInfo(FALSE, TRUE, TRUE, GoodPort, GoodPort),
     DevInfo(TRUE, FALSE, TRUE, GoodPort, GoodPort),
     DevInfo(TRUE, TRUE, FALSE, GoodPort, GoodPort),
     DevInfo(TRUE, TRUE, TRUE, PortInfo(FALSE, Speed16G, TRUE), GoodPort),
     DevInfo(TRUE, TRUE, TRUE, GoodPort, PortInfo(FALSE, Speed16G, TRUE)),
     DevInfo(TRUE, TRUE, TRUE, PortInfo(TRUE, Speed8G, TRUE), GoodPort),
     DevInfo(TRUE, TRUE, TRUE, GoodPort, PortInfo(TRUE, Speed8G, TRUE)),
     DevInfo(TRUE, TRUE, TRUE, PortInfo(TRUE, Speed16G, FALSE), GoodPort),
     DevInfo(TRUE, TRUE, TRUE, GoodPort, PortInfo(TRUE, Speed32G, FALSE))}

\* A port test that takes any negotiated speed.
portReadyAnySpeed(p) == p.pcie /\ p.lmr

\* p.testReady after getLinks' pass over port p: cleared when
\* getPcieCapOffset fails, when the speed is neither Speed16G nor Speed32G,
\* and when getLMRcapability fails.
portReady(p) ==
    /\ p.pcie
    /\ p.speed \in {Speed16G, Speed32G}
    /\ p.lmr

\* getLinks: one device of the scan. A device that is not selected, has no
\* PCIe capability or is neither an endpoint nor a switch upstream port is
\* passed over; a failing FindDSP makes getLinks return (nil, err); else a
\* linktest is appended whose testReady holds when both ports are ready.
getLinksDev ==
    /\ gpc = "getlinks"
    /\ gidx <= Len(gdevs)
    /\ LET d == gdevs[gidx] IN
       IF ~d.sel \/ ~d.usp.pcie \/ ~d.typeOk
       THEN /\ gidx' = gidx + 1
            /\ UNCHANGED <<glts, gpc>>
       ELSE IF ~d.dspOk
       THEN /\ gpc' = "failed"
            /\ glts' = <<>>
            /\ UNCHANGED gidx
       ELSE /\ glts' = Append(glts,
                           [dev |-> gidx,
                            testReady |-> portReady(d.dsp) /\ portReady(d.usp)])
            /\ gidx' = gidx + 1
            /\ UNCHANGED gpc
    /\ UNCHANGED <<wordVars, lts, width, lnksta2, cfgSpecs, bdfEmpty, walkVars,
                   trainVars,
                   gdevs, gmargined, regVars, linkVars, laneVars, procVars>>

\* getLinks returns lts; MarginLinks returns an error when it is empty.
getLinksReturn ==
    /\ gpc = "getlinks"
    /\ gidx > Len(gdevs)
    /\ gpc' = IF Len(glts) = 0 THEN "failed" ELSE "launch"
    /\ gidx' = 1
    /\ UNCHANGED <<wordVars, lts, width, lnksta2, cfgSpecs, bdfEmpty, walkVars,
                   trainVars,
                   gdevs, glts, gmargined, regVars, linkVars, laneVars,
                   procVars>>

\* MarginLinks: "if lt.testReady { wg.Add(1); go lt.marginLink() }" for one
\* link; marginLink is where prepLink writes the config space and the LMR
\* commands are issued.
launchLink ==
    /\ gpc = "launch"
    /\ gidx <= Len(glts)
    /\ gmargined' = IF glts[gidx].testReady
                    THEN gmargined \cup {glts[gidx].dev} ELSE gmargined
    /\ gidx' = gidx + 1
    /\ UNCHANGED <<wordVars, lts, width, lnksta2, cfgSpecs, bdfEmpty, walkVars,
                   trainVars,
                   gdevs, glts, gpc, regVars, linkVars, laneVars, procVars>>

\* The end of MarginLinks' loop over lts.
launchDone ==
    /\ gpc = "launch"
    /\ gidx > Len(glts)
    /\ gpc' = "done"
    /\ UNCHANGED <<wordVars, lts, width, lnksta2, cfgSpecs, bdfEmpty, walkVars,
                   trainVars,
                   gdevs, gidx, glts, gmargined, regVars, linkVars, laneVars,
                   procVars>>

\* The device lists of 1..MaxDevs devices.
InitEnum ==
    /\ CodecIdle
    /\ CmdIdle
    /\ AspectIdle
    /\ lts = {}
    /\ width = [l \in Links |-> 0]
    /\ lnksta2 = [l \in Links |-> 0]
    /\ cfgSpecs = <<>>
    /\ bdfEmpty = FALSE
    /\ reg = [l \in Links |-> [p \in Ports |-> DefaultReg]]
    /\ mpc = "off"
    /\ TasksStart
    /\ TrainIdle
    /\ wkind = "off"
    /\ wcfg = [ptr |-> 0, node |-> <<>>]
    /\ waddr = 0
    /\ been = {}
    /\ wseen = <<>>
    /\ wret = "run"
    /\ wout = 0
    /\ \E n \in 1 .. MaxDevs : gdevs \in [1 .. n -> DevKinds]
    /\ gidx = 1
    /\ glts = <<>>
    /\ gpc = "getlinks"
    /\ gmargined = {}

NextEnum ==
    \/ getLinksDev
    \/ getLinksReturn
    \/ launchLink
    \/ launchDone

SpecEnum == InitEnum /\ [][NextEnum]_vars

\* ------------------------------------------------------------------------
\* SpecTrain: the link training test's trainLoop on one link
\* ------------------------------------------------------------------------
\* Config register fields are two bits wide here; a & b on two bits.
And2(a, b) == (a % 2) * (b % 2) + 2 * ((a \div 2) % 2) * ((b \div 2) % 2)

MaxIters == 2

MaxFields == 2

\* A checked field as filterFields hands it over: state S_CHECK, with or
\* without an expected value.
CheckFields ==
    {[expected |-> e, mask |-> k, state |-> "S_CHECK", val |-> Nil] :
        e \in {Nil, 1}, k \in {1, 3}}

FieldLists ==
    UNION {[1 .. n -> CheckFields] : n \in 1 .. MaxFields}

Methods == {"M_RETRAIN_DEFAULT", "M_SBR", "M_REENABLE"}

\* trainLoop's switch on lt.Cfg.GetMethod().
trainingAction(method) ==
    CASE method = "M_RETRAIN_DEFAULT" -> "retrain"
      [] method = "M_SBR" -> "secondaryBusReset"
      [] method = "M_REENABLE" -> "reenable"

\* Linktest.check's loop from field k on: vs[k] is the value read for field
\* k, pass the function's local pass.
RECURSIVE checkFields(_, _, _, _)
checkFields(fs, vs, k, pass) ==
    IF k > Len(fs) THEN [chks |-> fs, pass |-> pass]
    ELSE LET f == fs[k]
         IN  IF f.expected = Nil
             THEN checkFields([fs EXCEPT ![k].state = "S_ERROR"], vs, k + 1,
                              FALSE)
             ELSE LET p == pass /\ And2(f.mask, f.expected) = And2(f.mask, vs[k])
                      g == IF f.state \in {"S_CHECK", "S_PASS"}
                           THEN [f EXCEPT !.val = And2(f.mask, vs[k]),
                                          !.state = IF p THEN "S_PASS"
                                                    ELSE "S_ERROR"]
                           ELSE f
                  IN  checkFields([fs EXCEPT ![k] = g], vs, k + 1, p)

\* lt.check() with the values vs read from the upstream port.
check(vs) == checkFields(chks, vs, 1, TRUE)

\* The values one check may read.
Readings == [1 .. Len(chks) -> 0 .. 3]

\* Field k's masked value differs from its masked expected value.
differs(vs, k) ==
    /\ chks[k].expected # Nil
    /\ And2(chks[k].mask, chks[k].expected) # And2(chks[k].mask, vs[k])

\* A trainLoop that trains after a failed initial check.
quitNever(pass) == FALSE

\* trainLoop: "if !lt.check() { ...; return }" before the loop.
quitAfterInitial(pass) == ~pass

\* trainLoop: "if cfg.Continue != nil && !cfg.GetContinue() { break }".
breakOnFail(continue) == continue = "false"

\* A verdict that asks for no failure only.
verdictPassNoFailure(fails, passes) == fails = 0

\* trainLoop: "if cfg.GetFailCount() == 0 && cfg.GetPassCount() > 0".
verdictPass(fails, passes) == fails = 0 /\ passes > 0

\* trainLoop up to the initial check: lt.record(), and a checked field
\* without an expected value is put in S_ERROR when its series is started.
trainLoopStart ==
    /\ ttpc = "start"
    /\ chks' = [k \in 1 .. Len(chks) |->
                 IF chks[k].expected = Nil
                 THEN [chks[k] EXCEPT !.state = "S_ERROR"] ELSE chks[k]]
    /\ ttpc' = "initial"
    /\ UNCHANGED <<trainOff, ltCfg, itn, passCount, failCount, ltPass, nlogs,
                   restored, tev, mism>>

\* What one lt.check() leaves: the fields, the check in the history and
\* the fields that differed.
checked(vs) ==
    /\ chks' = check(vs).chks
    /\ tev' = Append(tev, [ev |-> "check", ok |-> check(vs).pass])
    /\ mism' = [k \in 1 .. Len(chks) |-> mism[k] \/ differs(vs, k)]

\* trainLoop's initial check: a failure is logged and counted, and
\* trainLoop returns.
initialCheck ==
    /\ ttpc = "initial"
    /\ \E vs \in Readings :
         /\ checked(vs)
         /\ IF quitAfterInitial(check(vs).pass)
            THEN /\ nlogs' = nlogs + 1
                 /\ failCount' = failCount + 1
                 /\ ltPass' = FALSE
                 /\ ttpc' = "end"
            ELSE /\ ttpc' = "loop"
                 /\ UNCHANGED <<nlogs, failCount, ltPass>>
    /\ UNCHANGED <<trainOff, ltCfg, itn, passCount, restored>>

\* One iteration's training action: retrain, secondaryBusReset or
\* reenable, by the method.
trainIteration ==
    /\ ttpc = "loop"
    /\ itn < ltCfg.iterations
    /\ tev' = Append(tev, [ev |-> trainingAction(ltCfg.method), ok |-> TRUE])
    /\ ttpc' = "check"
    /\ UNCHANGED <<trainOff, ltCfg, chks, itn, passCount, failCount, ltPass,
                   nlogs, restored, mism>>

\* The iteration's check: the first failure is logged, a failure is
\* counted and ends the loop when continue is set to false; a pass is
\* counted.
iterationCheck ==
    /\ ttpc = "check"
    /\ \E vs \in Readings :
         /\ checked(vs)
         /\ IF ~check(vs).pass
            THEN /\ nlogs' = IF failCount = 0 THEN nlogs + 1 ELSE nlogs
                 /\ failCount' = failCount + 1
                 /\ UNCHANGED passCount
                 /\ IF breakOnFail(ltCfg.continue)
                    THEN ttpc' = "verdict" /\ UNCHANGED itn
                    ELSE ttpc' = "loop" /\ itn' = itn + 1
            ELSE /\ passCount' = passCount + 1
                 /\ itn' = itn + 1
                 /\ ttpc' = "loop"
                 /\ UNCHANGED <<nlogs, failCount>>
    /\ UNCHANGED <<trainOff, ltCfg, ltPass, restored>>

\* After the loop: the verdict, the log of a passing link, lt.restore().
trainVerdict ==
    /\ \/ ttpc = "verdict"
       \/ ttpc = "loop" /\ itn >= ltCfg.iterations
    /\ IF verdictPass(failCount, passCount)
       THEN nlogs' = nlogs + 1 /\ ltPass' = TRUE
       ELSE UNCHANGED <<nlogs, ltPass>>
    /\ restored' = TRUE
    /\ ttpc' = "end"
    /\ UNCHANGED <<trainOff, ltCfg, chks, itn, passCount, failCount, tev,
                   mism>>

\* One Linktest as getLinks builds it: Pass false, both counts 0, the
\* checked fields in S_CHECK.
InitTrain ==
    /\ CodecIdle
    /\ CmdIdle
    /\ AspectIdle
    /\ lts = {}
    /\ width = [l \in Links |-> 0]
    /\ lnksta2 = [l \in Links |-> 0]
    /\ cfgSpecs = <<>>
    /\ bdfEmpty = FALSE
    /\ reg = [l \in Links |-> [p \in Ports |-> DefaultReg]]
    /\ mpc = "off"
    /\ TasksStart
    /\ gdevs = <<>>
    /\ gidx = 1
    /\ glts = <<>>
    /\ gpc = "off"
    /\ gmargined = {}
    /\ wkind = "off"
    /\ wcfg = [ptr |-> 0, node |-> <<>>]
    /\ waddr = 0
    /\ been = {}
    /\ wseen = <<>>
    /\ wret = "run"
    /\ wout = 0
    /\ ttpc = "start"
    /\ \E n \in 0 .. MaxIters, md \in Methods,
          c \in {"unset", "true", "false"} :
         ltCfg = [iterations |-> n, method |-> md, continue |-> c]
    /\ chks \in FieldLists
    /\ itn = 0
    /\ passCount = 0
    /\ failCount = 0
    /\ ltPass = FALSE
    /\ nlogs = 0
    /\ restored = FALSE
    /\ tev = <<>>
    /\ mism = [k \in 1 .. Len(chks) |-> FALSE]

NextTrain ==
    \/ trainLoopStart
    \/ initialCheck
    \/ trainIteration
    \/ iterationCheck
    \/ trainVerdict

SpecTrain == InitTrain /\ [][NextTrain]_vars

\* ------------------------------------------------------------------------
\* Claims about the command exchanges
\* ------------------------------------------------------------------------
\* C1: each write of a command other than No Command to the lane's command
\* register is immediately preceded, in the lane's register trace, by the
\* write of the No Command broadcast, whose echo was observed.
NoCmdPrecedesCommand ==
    (Len(trace) >= 1 /\ trace[Len(trace)].w # encode(NoCmd)) =>
        /\ Len(trace) = 2
        /\ trace[1].w = encode(NoCmd)
        /\ trace[1].echoed

\* margin() has returned to the scan with a point whose step command was
\* accepted and polled.
PointPolled == lnpc = "scan" /\ pstatus # "S_UNKNOWN"

\* C13: for a margin point whose step command was accepted and polled, a
\* final status of NAK, SettingUp, or ErrorOut with err_out_ok false leaves
\* ln.Pass false; a final status of Margining, or ErrorOut with err_out_ok
\* true, leaves ln.Pass as it was when margin() was entered.
PassFollowsStatus ==
    PointPolled =>
        IF pstatus = "S_MARGINING" \/ (pstatus = "S_ERROR_OUT" /\ errOutOK)
        THEN Pass = passIn
        ELSE Pass = FALSE

\* C14: when an LMR command exchange of the parameter reads, of the
\* error-limit programming or of a step command failed, the lane ends with
\* Pass = false.
FailedExchangeFailsLane == (lnpc = "ret" /\ lerr) => Pass = FALSE

\* C20: after a step command written by margin(), Clear Error Log and then
\* Go To Normal Settings are issued before margin() returns (and so before
\* any further step command), on every path.
TeardownAfterStep ==
    lnpc \in {"scan", "margin", "setlimit", "ret"} => owed = "none"

\* The margin point ended Error Out or terminally Margining on a lane with
\* an independent error sampler that reports a count.
CountToQuery ==
    /\ pstatus \in {"S_ERROR_OUT", "S_MARGINING"}
    /\ lparam.ies
    /\ ~lparam.srm

\* C28: a Report Sample Count command is issued for a margin point exactly
\* when the point ended Error Out or terminally Margining and the lane
\* reports both an independent error sampler and count (not rate)
\* reporting; without independent error sampler the count is never queried.
SampleCountQueriedIff ==
    /\ lnpc = "counting" => CountToQuery
    /\ lnpc = "clear" =>
          ((lcmd.typ = MarginTypeReport /\ lcmd.payload = RptSampleCount)
              <=> CountToQuery)
    /\ (lnpc \in {"counting", "clear"} /\ ~lparam.ies) =>
          lcmd.typ # MarginTypeReport

SampleCountQueried ==
    /\ lnpc = "clear"
    /\ lcmd.typ = MarginTypeReport
    /\ lcmd.payload = RptSampleCount
    /\ pstatus = "S_MARGINING"

\* C30: a lane's timing (voltage) point list holds exactly one point per
\* timing (voltage) margin() invocation, in the order the offsets were
\* issued, points whose step command failed included, and GatherResult
\* reports these lists.
PointListsComplete ==
    /\ Len(tsteps) + Len(vsteps) = npts
    /\ \A n \in 1 .. npts :
          (\E k \in 1 .. Len(tsteps) : tsteps[k] = n)
              \/ (\E k \in 1 .. Len(vsteps) : vsteps[k] = n)
    /\ \A j, k \in 1 .. Len(tsteps) : j < k => tsteps[j] < tsteps[k]
    /\ \A j, k \in 1 .. Len(vsteps) : j < k => vsteps[j] < vsteps[k]
    /\ "V" \notin laneSpecs => vsteps = <<>>
    /\ lanepb.gathered =>
          /\ lanepb.TimingMargins = tsteps
          /\ lanepb.VoltageMargins = vsteps

FailedPointListed ==
    /\ lanepb.gathered
    /\ lerr
    /\ Len(lanepb.TimingMargins) >= 1
    /\ Len(lanepb.VoltageMargins) >= 1

\* ------------------------------------------------------------------------
\* Claims about one margin point against the clock
\* ------------------------------------------------------------------------
PollingEnded == tpc \in {"done", "counted", "returned"}

\* C11: margin() ends its status polling with Setting Up only when more
\* than marginTimeout (1000 ms) has passed since the step command returned;
\* otherwise the polling ends only on Error Out, on NAK, or on Margining
\* that has been observed for at least the aspect's dwell.
PollingEndsOnTime ==
    PollingEnded =>
        /\ pstatus \in {"S_NAK", "S_ERROR_OUT", "S_SETTING_UP", "S_MARGINING"}
        /\ pstatus = "S_SETTING_UP" => elapsed > marginTimeout
        /\ pstatus = "S_MARGINING" =>
              /\ dwellStart # Nil
              /\ dwellActual = elapsed - dwellStart
              /\ dwellActual >= tdwell

PollingTimedOut ==
    PollingEnded /\ pstatus = "S_SETTING_UP" /\ elapsed > marginTimeout

\* C12: a margin point ends in Margining only after the time since the
\* first Margining observation has reached the larger of the TestSpec's
\* dwell and the derived dwell, so a larger specified dwell is honoured.
SpecifiedDwellHonoured ==
    (PollingEnded /\ pstatus = "S_MARGINING") =>
        dwellActual >= tdwell /\ dwellActual >= specDwell

\* C29: on the derived (not queried) sample-count path, a margin point
\* that reaches Error Out without ever having been observed in Margining
\* has actual dwell 0 and is given sample_count = 18, never 0 or absent.
ErrorOutAtOnceCounts18 ==
    (/\ tpc = "counted"
     /\ pstatus = "S_ERROR_OUT"
     /\ dwellStart = Nil
     /\ derivedCount(lparam)) =>
        dwellActual = 0 /\ samples = 18

ErrorOutAtOnce ==
    /\ tpc = "counted"
    /\ pstatus = "S_ERROR_OUT"
    /\ dwellStart = Nil
    /\ derivedCount(lparam)
    /\ elapsed > 0
    /\ samples = 18

\* ------------------------------------------------------------------------
\* Claims about the margin range and the eye scan
\* ------------------------------------------------------------------------
\* determineMarginRange has run and scanEye was entered.
InScan ==
    /\ ~asp.eyeSizeMode
    /\ spc \in {"pos", "neg", "next", "measure"} \/ (spc = "done" /\ calls # <<>>)

\* The TestSpec asks for target-only mode.
TargetOnly ==
    /\ tspec.target_offset # Nil
    /\ tspec.start_offset = Nil
    /\ ~asp.eyeSizeMode

\* The TestSpec asks for an eye scan.
EyeScan == tspec.start_offset # Nil /\ ~asp.eyeSizeMode

\* On each side, every call but the last one returned a passing point.
SideStopsAtFailure ==
    \A i, j \in 1 .. Len(calls) :
        (i < j /\ calls[i].side = calls[j].side) => calls[i].pass

\* C15: in target-only mode (target_offset set, start_offset unset, not
\* eye-size mode) exactly one offset is measured, at
\* steps = min(target_offset, num_steps): one positive-direction step
\* command, and one negative-direction step command exactly when the aspect
\* has independent direction control; err_out_ok is false.
TargetOnlyOnePoint ==
    (spc = "done" /\ calls # <<>> /\ TargetOnly) =>
        LET want == IF tspec.target_offset <= asp.steps
                    THEN tspec.target_offset ELSE asp.steps
        IN  /\ asp.targetMode
            /\ ~asp.errOutOK
            /\ Len(calls) = IF asp.indDir THEN 2 ELSE 1
            /\ calls[1] = Point(want, "pos", calls[1].status)
            /\ asp.indDir =>
                 calls[2] = Point(want + DirMask, "neg", calls[2].status)

TargetOnlyClamped ==
    /\ spc = "done"
    /\ calls # <<>>
    /\ TargetOnly
    /\ asp.indDir
    /\ tspec.target_offset > asp.steps

\* C16: in eye-scan mode, for every step value in 1..65535, the offsets
\* scanEye visits are strictly increasing, begin at
\* min(start_offset, target), never exceed the target and, when a
\* target_offset is given, end at the target.
ScanOffsetsIncrease ==
    (InScan /\ EyeScan) =>
        /\ \A i, j \in 1 .. Len(calls) :
              (i < j /\ calls[i].side = "pos" /\ calls[j].side = "pos") =>
                  calls[i].payload < calls[j].payload
        /\ \A i \in 1 .. Len(calls) : calls[i].steps <= asp.target
        /\ calls # <<>> =>
              calls[1].payload = IF tspec.start_offset <= asp.target
                                 THEN tspec.start_offset ELSE asp.target
        /\ (spc = "done" /\ tspec.target_offset # Nil) => offset = asp.target

\* C17: in eye-scan mode on a receiver without independent error sampler,
\* once a side has recorded its first non-passing point no further step
\* command is issued on that side for the rest of the aspect's scan.
NoStepAfterFailure ==
    (InScan /\ EyeScan /\ ~lparam.ies) => SideStopsAtFailure

FailedSideSkipped ==
    /\ spc = "done"
    /\ EyeScan
    /\ ~lparam.ies
    /\ \E i, j \in 1 .. Len(calls) :
         /\ i < j
         /\ ~calls[i].pass
         /\ calls[j].steps > calls[i].steps

\* C18: in an until-fail eye scan (start_offset set, target_offset unset)
\* with independent direction control, whatever the lane's parameters,
\* each side stops being margined after its first non-passing point.
UntilFailSideStops ==
    (InScan /\ EyeScan /\ tspec.target_offset = Nil /\ asp.indDir) =>
        /\ asp.untilFail
        /\ SideStopsAtFailure

\* C19: for a TestSpec run in target-only or eye-scan mode, the range
\* determineMarginRange computes has target <= num_steps, start <= target
\* and step >= 1, and a start_offset without target_offset gives
\* target = num_steps.
RangeWithinLimits ==
    (InScan /\ (TargetOnly \/ EyeScan)) =>
        /\ asp.target <= asp.steps
        /\ asp.start <= asp.target
        /\ asp.step >= 1
        /\ (tspec.start_offset # Nil /\ tspec.target_offset = Nil) =>
              asp.target = asp.steps

StartClamped ==
    /\ InScan
    /\ EyeScan
    /\ tspec.target_offset # Nil
    /\ U16(tspec.start_offset) > asp.target
    /\ asp.start = asp.target

\* The offset of the max-passing point of a side, 0 when there is none: in
\* an eye scan the last point that passed before the side first failed, in
\* an eye-size test the last point that passed. Without independent
\* direction control the positive points stand for both sides.
MaxPassing(side) ==
    LET from == IF asp.indDir THEN side ELSE "pos"
        on == {i \in DOMAIN calls : calls[i].side = from}
        S == {i \in on :
                /\ calls[i].pass
                /\ asp.eyeSizeMode \/ \A j \in on : j < i => calls[j].pass}
    IN  IF S = {} THEN 0
        ELSE calls[CHOOSE i \in S : \A j \in S : j <= i].steps

\* The sum of the two max-passing values is below eye_size (both sides
\* times num_steps, in hundredths).
SumBelowEyeSize ==
    (MaxPassing("pos") + MaxPassing("neg")) * asp.maxOffset
        < tspec.eye_size * asp.steps

\* The aspect ran in eye-scan or eye-size mode with eye_size given, on a
\* lane that reports a number of steps.
EyeSizeChecked ==
    /\ asp.eyeScanMode \/ asp.eyeSizeMode
    /\ tspec.eye_size # Nil
    /\ asp.steps > 0

\* C26: in eye-scan or eye-size mode with eye_size given, the check made
\* when the aspect completes leaves Pass false whenever the max-passing
\* positive value plus the max-passing negative value (a missing one is 0,
\* the same point twice without independent direction control) is below
\* eye_size, and does not change Pass when the sum is at least eye_size.
EyeSizeDecidesPass ==
    [][(spc = "measure" /\ EyeSizeChecked) =>
         Pass' = (Pass /\ ~SumBelowEyeSize)]_vars

\* An eye-size test whose points all left Pass alone ended with Pass
\* cleared by the eye size check.
EyeTooSmallFails ==
    /\ spc = "done"
    /\ EyeSizeChecked
    /\ asp.eyeSizeMode
    /\ asp.indDir
    /\ calls # <<>>
    /\ \A i \in DOMAIN calls : calls[i].status # "S_NAK"
    /\ SumBelowEyeSize
    /\ ~Pass

\* The first positive scan of an eye-size test with independent direction
\* control passed at its first offset and the negative side did not pass
\* at the matching offset.
NegativeMissedMatch ==
    /\ asp.eyeSizeMode
    /\ asp.indDir
    /\ Len(calls) >= 2
    /\ calls[1].side = "pos" /\ calls[1].pass
    /\ calls[2].side = "neg" /\ ~calls[2].pass
    /\ calls[2].steps = U16(asp.start - calls[1].steps)

\* C27: in eye-size mode with independent direction control, when the
\* first positive scan passed with no positive failure recorded and the
\* negative side did not pass at the matching offset, the positive scan is
\* restarted, from an offset strictly larger than the previous positive
\* passing offset.
PositiveScanRestarted ==
    (spc \in {"measure", "done"} /\ NegativeMissedMatch) =>
        \E i \in DOMAIN calls :
            /\ i > 2
            /\ calls[i].side = "pos"
            /\ calls[i - 1].side = "neg"
            /\ calls[i].steps > calls[1].steps

\* C31: when the aspect has no independent direction control, every
\* margin point has direction LR (timing) or UD (voltage), no step command
\* carries the direction bit, and each visited offset is measured once, in
\* eye-scan, target-only and eye-size mode alike.
SingleDirectionOnePass ==
    ~asp.indDir =>
        \A i \in DOMAIN calls :
            /\ calls[i].dir = "D_BOTH"
            /\ Field(calls[i].payload, DirMask, 2) = 0
            /\ \A j \in DOMAIN calls : j # i => calls[j].payload # calls[i].payload

\* An eye-size test or an eye scan has ended.
AspectMeasured == spc \in {"measure", "done"} /\ calls # <<>>

\* C35: in eye-size mode, for every step >= 1 and with 16-bit offset
\* arithmetic, the offsets tested on a side in one scan are strictly
\* decreasing and never fall below target_offset, and when every offset
\* tested on the positive side failed the last one tested equals
\* target_offset.
EyeSizeOffsetsDecrease ==
    asp.eyeSizeMode =>
        /\ \A i \in DOMAIN calls :
              /\ calls[i].steps >= asp.target
              /\ (i > 1 /\ calls[i - 1].side = calls[i].side) =>
                    calls[i].steps < calls[i - 1].steps
        /\ (/\ AspectMeasured
            /\ \A i \in DOMAIN calls :
                  calls[i].side = "pos" => ~calls[i].pass) =>
              \E k \in DOMAIN calls :
                  /\ calls[k].side = "pos"
                  /\ calls[k].steps = asp.target
                  /\ \A j \in DOMAIN calls :
                        (j > k) => calls[j].side # "pos"

\* C36: every step command written, in every mode and for every TestSpec,
\* carries a step count no greater than the aspect's num_steps, fits its
\* 6-bit (timing) or 7-bit (voltage) field, and has its direction bit set
\* only for a negative-side measurement.
StepCommandsInRange ==
    \A i \in DOMAIN calls :
        /\ calls[i].steps <= asp.steps
        /\ calls[i].steps < DirMask
        /\ Field(calls[i].payload, DirMask, 2) = 1 => calls[i].side = "neg"

\* C37: for each side, whenever both a max-passing and a min-failing point
\* are recorded at the end of scanEye or testEyeSize, the max-passing
\* point's step count is strictly smaller than the min-failing point's.
PassBelowFail ==
    AspectMeasured =>
        \A side \in {"pos", "neg"} :
            (mp[side]["pass"] # Nil /\ mp[side]["fail"] # Nil) =>
                calls[mp[side]["pass"]].steps < calls[mp[side]["fail"]].steps

\* ------------------------------------------------------------------------
\* Claims about one command and response exchange
\* ------------------------------------------------------------------------
\* What the exchange is to look for: the command's receiver and type, usage
\* model 0 and, when the exchange matches payloads, the command's payload.
Answers(rsp, cmd, matchPayload) ==
    /\ rsp.rec = cmd.rec
    /\ rsp.typ = cmd.typ
    /\ rsp.usage = 0
    /\ (matchPayload => rsp.payload = cmd.payload)

\* C33: lmrCmdRspBase writes the command word once, on entry, and then only
\* reads the response register; it returns success on exactly the read
\* whose response has the command's receiver and type, usage model 0 and
\* (when payloads are matched) the command's payload, and hands that
\* response back; a return with an error follows a read that did not
\* answer the command, and the response of that read is the one it holds.
ExchangeOutcome ==
    [][/\ xpc \in {"bcW", "cmW"} =>
            /\ trace'[Len(trace')] = [w |-> encode(Pending), echoed |-> FALSE]
            /\ xpc' \in {"bcR", "cmR"}
       /\ xpc \in {"bcR", "cmR"} =>
            LET ok == Answers(xrsp', Pending, PendingMatch)
                returned == xpc' # xpc
                failed == xpc' = "ret" /\ xerr'
            IN  /\ Len(trace') = Len(trace)
                /\ \A i \in 1 .. Len(trace) : trace'[i].w = trace[i].w
                /\ xrsp' \in {decode(w) : w \in StatusWords(Pending)}
                /\ (returned /\ ~failed) <=> ok
                /\ failed => ~ok
                /\ (ok /\ xpc = "cmR") => (lrsp' = xrsp' /\ ~xerr')
                /\ (ok /\ xpc = "bcR") => xpc' = "cmW"]_vars

\* An echoed command timed out on a response of its receiver and type
\* that carried another payload.
ExchangeTimedOutOnPayload ==
    /\ xpc = "ret"
    /\ xerr
    /\ xmatch
    /\ xrsp.rec = lcmd.rec /\ xrsp.typ = lcmd.typ /\ xrsp.usage = 0
    /\ xrsp.payload # lcmd.payload

\* The exchange is about to write a step command.
StepCommandDue ==
    /\ xpc = "cmW"
    /\ lcmd.typ \in {MarginTypeTiming, MarginTypeVoltage}

\* C32: within one aspect of a lane at most one Set Error Count Limit
\* command is written; a step command is written only after the aspect's
\* one Set Error Count Limit command was written and setErrLimit returned
\* without error; an aspect whose setErrLimit returned without error wrote
\* exactly one, and one whose setErrLimit failed ends the lane's test with
\* no step command.
ErrLimitBeforeSteps ==
    [][/\ nlimit' <= 1
       /\ StepCommandDue => (nlimit = 1 /\ limitOk)
       /\ (lnpc = "limit" /\ lnpc' = "margin") => (nlimit = 1 /\ ~xerr)
       /\ (lnpc = "limit" /\ lnpc' # "limit" /\ xerr) => lnpc' = "ret"]_vars

\* The lane's second aspect wrote its Set Error Count Limit command, the
\* command failed and the lane's test ended, after the first aspect's
\* points.
SecondLimitFailed ==
    /\ lnpc = "ret"
    /\ npts > 0
    /\ nlimit = 1
    /\ ~limitOk
    /\ lerr
    /\ isSetErrLimit(lcmd)

\* ------------------------------------------------------------------------
\* Claims about the link training test
\* ------------------------------------------------------------------------
IsTraining(e) == e.ev \in {"retrain", "secondaryBusReset", "reenable"}

IsCheck(e) == e.ev = "check"

TrainingCount == Cardinality({k \in 1 .. Len(tev) : IsTraining(tev[k])})

\* C34: in trainLoop the first event is a status check; a training action
\* (retrain, secondary bus reset, re-enable) comes directly after a check
\* and is directly followed by one, so no two training actions are
\* adjacent and trainLoop never leaves the loop with a training action
\* unchecked; no training action follows a failed initial check.
TrainingSandwiched ==
    /\ tev # <<>> => IsCheck(tev[1])
    /\ \A k \in 1 .. Len(tev) :
         IsTraining(tev[k]) =>
            /\ k > 1
            /\ IsCheck(tev[k - 1])
            /\ tev[1].ok
            /\ IF k < Len(tev) THEN IsCheck(tev[k + 1]) ELSE ttpc = "check"
    /\ ttpc \in {"verdict", "end"} => IsCheck(tev[Len(tev)])

\* trainLoop ended after two training actions, the first of which was
\* followed by a failed check.
TrainedTwice ==
    /\ ttpc = "end"
    /\ Len(tev) = 5
    /\ IsTraining(tev[2]) /\ ~tev[3].ok
    /\ IsTraining(tev[4]) /\ IsCheck(tev[5])

\* C39: a checked field is in S_ERROR only if it has no expected value or
\* its masked value differed from its masked expected value in some check;
\* a field with an expected value that matched in every check made so far
\* (at least one) is in S_PASS, whatever the other fields read.
FieldStateByOwnChecks ==
    \A k \in 1 .. Len(chks) :
        /\ chks[k].state = "S_ERROR" => (chks[k].expected = Nil \/ mism[k])
        /\ (tev # <<>> /\ chks[k].expected # Nil /\ ~mism[k]) =>
              chks[k].state = "S_PASS"

\* C40: when trainLoop has ended, lt.Pass is true exactly when the initial
\* check passed, at least one training iteration ran and every check after
\* a training action passed, that is fail_count = 0 and pass_count >= 1;
\* with continue set to false no training action follows a failed check.
PassVerdict ==
    /\ ttpc = "end" =>
         /\ ltPass <=> /\ tev[1].ok
                       /\ TrainingCount >= 1
                       /\ \A k \in 2 .. Len(tev) : tev[k].ok
         /\ ltPass <=> (failCount = 0 /\ passCount >= 1)
    /\ failCount = Cardinality({k \in 1 .. Len(tev) : ~tev[k].ok})
    /\ passCount = Cardinality({k \in 2 .. Len(tev) :
                                   IsCheck(tev[k]) /\ tev[k].ok})
    /\ ltCfg.continue = "false" =>
         \A k \in 1 .. Len(tev) :
            ~tev[k].ok => \A j \in k + 1 .. Len(tev) : ~IsTraining(tev[j])

\* trainLoop ended with lt.Pass true after the most iterations.
TrainedAndPassed ==
    /\ ttpc = "end"
    /\ ltPass
    /\ TrainingCount = ltCfg.iterations
    /\ ltCfg.iterations >= 2
    /\ restored

\* C38 (the scans of an aspect): whatever statuses the margin points
\* return and whatever the TestSpec, as long as every margin point returns,
\* the eye scan or eye-size scan of the aspect ends and testAspect goes on
\* to outputEyeMeasurement (or returns before the scan).
ScanEnds == <>(spc \in {"measure", "done"})

\* ------------------------------------------------------------------------
\* Claims about the capability walkers
\* ------------------------------------------------------------------------
\* The offsets read so far.
SeenSet == {wseen[i] : i \in DOMAIN wseen}

\* The header at a read offset carries the ID the walker looks for.
IdMatches(a) == wcfg.node[a] % 256 = wantedId(wkind)

\* The next pointer of the header at a read offset.
PointsTo(a) ==
    IF wkind = "lmr" THEN ((wcfg.node[a] \div 1048576) \div 4) * 4
    ELSE (((wcfg.node[a] \div 256) % 256) \div 4) * 4

\* C25: for any config-space contents both capability walkers terminate,
\* read each offset at most once, and return exactly one of: the offset of
\* the first node whose ID matches, 'not found' when a zero next pointer
\* is reached before a match, 'loop' when a next pointer leads to an
\* offset already visited.
WalkerOutcome ==
    wkind # "off" =>
        /\ \A i, j \in DOMAIN wseen : i # j => wseen[i] # wseen[j]
        /\ Len(wseen) <= Cardinality(NodeAddrs(wkind))
        /\ wseen # <<>> => wseen[1] = wcfg.ptr
        /\ \A i \in DOMAIN wseen :
              i < Len(wseen) =>
                  ~IdMatches(wseen[i]) /\ wseen[i + 1] = PointsTo(wseen[i])
        /\ wret = "run" => ENABLED (getLMRcapability \/ getPcieCapOffset)
        /\ wret = "found" =>
              /\ wseen # <<>>
              /\ wout = wseen[Len(wseen)]
              /\ IdMatches(wout)
        /\ wret = "notfound" =>
              /\ \A a \in SeenSet : ~IdMatches(a)
              /\ IF wseen = <<>> THEN wcfg.ptr = 0
                 ELSE PointsTo(wseen[Len(wseen)]) = 0
        /\ wret = "loop" =>
              /\ wseen # <<>>
              /\ \A a \in SeenSet : ~IdMatches(a)
              /\ PointsTo(wseen[Len(wseen)]) \in SeenSet

\* A walk of three headers ended on a next pointer into the chain.
WalkerFoundLoop ==
    /\ wret = "loop"
    /\ Len(wseen) = 3
    /\ PointsTo(wseen[3]) = wseen[2]

\* ------------------------------------------------------------------------
\* Claims about the enumeration of the links
\* ------------------------------------------------------------------------
\* Both ports of device i's link have a PCIe capability, a negotiated speed
\* of Gen4 or Gen5 and an LMR extended capability.
LinkEligible(i) ==
    \A p \in {gdevs[i].usp, gdevs[i].dsp} :
        p.pcie /\ p.speed \in {4, 5} /\ p.lmr

\* Device i matches the configuration and is an endpoint or a switch
\* upstream port.
DevMatches(i) == gdevs[i].sel /\ gdevs[i].typeOk

\* C23: a link is prepared and margined only if both of its ports have a
\* PCIe capability, a negotiated speed of Gen4 or Gen5 and an LMR extended
\* capability; links failing any of these are skipped while the others are
\* margined.
OnlyEligibleLinksMargined ==
    /\ \A i \in gmargined : DevMatches(i) /\ LinkEligible(i)
    /\ gpc = "done" =>
          \A i \in DOMAIN gdevs :
              (DevMatches(i) /\ LinkEligible(i)) => i \in gmargined

\* A run ended with one link margined and a Gen3 link skipped.
IneligibleLinkSkipped ==
    /\ gpc = "done"
    /\ Len(gdevs) = 2
    /\ gmargined = {2}
    /\ DevMatches(1)
    /\ gdevs[1].usp.pcie /\ gdevs[1].usp.lmr /\ gdevs[1].usp.speed = 3

\* C24: a failure to resolve the DSP of one matching device excludes only
\* that device's link: the remaining links are enumerated and margined.
DspFailureExcludesOneLink ==
    gpc \in {"done", "failed"} =>
        \A i \in DOMAIN gdevs :
            (DevMatches(i) /\ LinkEligible(i) /\ gdevs[i].dspOk) =>
                i \in gmargined

\* ------------------------------------------------------------------------
\* Claims about prepLink / restoreLink
\* ------------------------------------------------------------------------
\* marginLink of link l has ended: it returned, or its panic unwound.
LinkEnded(l) == ltpc[l] \in {"done", "dead"}

AspmOf(val) == val % (PCI_EXP_LNKCTL_ASPM + 1)

\* C2: after prepLink followed by restoreLink, on both ports the
\* Hardware-Autonomous-Width-Disable bit of LnkCtl and the
\* Hardware-Autonomous-Speed-Disable bit of LnkCtl2 equal their pre-test
\* values.
RestoreKeepsAutonomousBits ==
    \A l \in lts : LinkEnded(l) =>
        \A p \in Ports :
            /\ HasBit(reg[l][p].lnkctl, PCI_EXP_LNKCTL_HWAUTWD)
                 = HasBit(reg0[l][p].lnkctl, PCI_EXP_LNKCTL_HWAUTWD)
            /\ HasBit(reg[l][p].lnkctl2, PCI_EXP_LNKCTL2_SPEED_DIS)
                 = HasBit(reg0[l][p].lnkctl2, PCI_EXP_LNKCTL2_SPEED_DIS)

\* C3 as stated: after a link's test the ASPM-control bits of LnkCtl on
\* both ports equal their pre-test values.
AspmRestored ==
    \A l \in lts : LinkEnded(l) =>
        \A p \in Ports : AspmOf(reg[l][p].lnkctl) = AspmOf(reg0[l][p].lnkctl)

\* C3 as amended: after a link's test the ASPM-control bits of LnkCtl on
\* both ports are 00b (disabled), whatever their pre-test values, and
\* every LnkCtl bit other than ASPM control and HWAutWd is as before.
AspmLeftDisabled ==
    \A l \in lts : LinkEnded(l) =>
        \A p \in Ports :
            /\ AspmOf(reg[l][p].lnkctl) = 0
            /\ ClearBit(ClearLow(reg[l][p].lnkctl, PCI_EXP_LNKCTL_ASPM),
                        PCI_EXP_LNKCTL_HWAUTWD)
                 = ClearBit(ClearLow(reg0[l][p].lnkctl, PCI_EXP_LNKCTL_ASPM),
                            PCI_EXP_LNKCTL_HWAUTWD)

\* A link whose ports had ASPM enabled before the test (L0s on the DSP,
\* L0s+L1 on the USP) has returned from marginLink.
AspmLeftDisabledWitness ==
    /\ ltpc[1] = "done"
    /\ AspmOf(reg0[1]["dsp"].lnkctl) = 1
    /\ AspmOf(reg0[1]["usp"].lnkctl) = 3
    /\ AspmOf(reg[1]["dsp"].lnkctl) = 0
    /\ AspmOf(reg[1]["usp"].lnkctl) = 0

\* ------------------------------------------------------------------------
\* Claims about the tasks
\* ------------------------------------------------------------------------
LaneIds == {<<l, r, n>> \in Links \X Receivers \X LaneNums : TRUE}

LanePc(x) == lanepc[x[1]][x[2]][x[3]]

LaneTask(x) == Ln(x[1], x[2], x[3])

\* The lane's task has been started and has not ended.
LaneRunning(x) == LanePc(x) \notin {"idle", "ret", "dead"}

\* The lane is inside an accessor call of setErrLimit or of a step command.
IssuingMargin(x) ==
    /\ LanePc(x) \in {"setlimit", "step"}
    /\ LaneTask(x) \in inside

\* The lane is launched by marginLink's loop.
ToLaunch(x) == Tested(x[1], x[2]) /\ HasSpec(x[1], x[2], x[3])

\* MarginLinks has returned or the process has exited.
RunEnded == exited \/ mpc = "done"

\* C4: every link for which prepLink has run has restoreLink run on every
\* exit path (normal completion, a failed command exchange, a lane task or
\* link task that panics), and restoreLink runs only after all lane tasks
\* of the link have finished.
RestoreOnEveryExit ==
    \A l \in lts :
        /\ (RunEnded /\ ltpc[l] \notin {"idle", "prep"}) => LinkEnded(l)
        /\ ltpc[l] \in {"restore", "done", "dead"} =>
               \A r \in Receivers, n \in LaneNums : ~LaneRunning(<<l, r, n>>)

\* C5: no lane of any link issues a margining command while a lane of
\* another link under test is still in its parameter-read phase.
LinkBarrier ==
    \A x \in LaneIds, y \in LaneIds :
        (x[1] # y[1] /\ IssuingMargin(x)) => LanePc(y) # "param"

\* C6: within a receiver whose lanes run in parallel, no lane issues a
\* margining command until every lane launched for that receiver has
\* finished its parameter reads.
ReceiverBarrier ==
    \A x \in LaneIds, y \in LaneIds :
        (/\ x[1] = y[1] /\ x[2] = y[2] /\ x[3] # y[3]
         /\ x[2] \in parallel[x[1]]
         /\ IssuingMargin(x)
         /\ ToLaunch(y))
        => LanePc(y) \notin {"idle", "param"}

\* C7: when a receiver's lanes do not run in parallel, at most one lane
\* task of it is active at any time, and a lane's MarginLane is started
\* only after the MarginLane of every earlier lane has returned.
SerialOneLaneAtATime ==
    \A l \in Links, r \in Receivers :
        r \notin parallel[l] =>
            /\ Cardinality({n \in LaneNums : LaneRunning(<<l, r, n>>)}) <= 1
            /\ \A n \in LaneNums, k \in LaneNums :
                 (k < n /\ LanePc(<<l, r, n>>) # "idle" /\ ToLaunch(<<l, r, k>>))
                 => LanePc(<<l, r, k>>) \in {"ret", "dead"}

\* On a serial receiver lane 0 has returned and lane 1 is in a step command.
SerialWitness ==
    \E l \in Links, r \in Receivers :
        /\ r \notin parallel[l]
        /\ lanepc[l][r][0] = "ret"
        /\ lanepc[l][r][1] = "step"

\* C8: within a link, no lane task of a receiver starts before every lane
\* task of each lower-numbered tested receiver has returned.
ReceiversInOrder ==
    \A l \in Links, r \in Receivers, q \in Receivers :
        (q < r /\ \E n \in LaneNums : LanePc(<<l, r, n>>) # "idle") =>
            \A k \in LaneNums :
                /\ ~LaneRunning(<<l, q, k>>)
                /\ ToLaunch(<<l, q, k>>) => LanePc(<<l, q, k>>) # "idle"

\* A lane of the USP receiver is in a step command after the lanes of the
\* DSP receiver went through teardown and returned.
ReceiversInOrderWitness ==
    \E l \in Links :
        /\ width[l] = 2
        /\ lanepc[l][R_DSP_A1][0] = "ret"
        /\ lanepc[l][R_DSP_A1][1] = "ret"
        /\ lanepc[l][R_USP_F6][0] = "step"

\* The TestSpec is ignored for a configuration error on link l: its
\* receiver is Broadcast or Reserved or not present, or its aspect is
\* missing.
Offending(l, s) ==
    \/ s.receiver \in {R_BROADCAST0, R_RESERVED}
    \/ s.receiver \in {R_RTU_B2, R_RTD_C3}
         /\ (lnksta2[l] \div PCI_EXP_LINKSTA2_RETIMER) % 2 = 0
    \/ s.receiver \in {R_RTU_D4, R_RTD_E5}
         /\ (lnksta2[l] \div PCI_EXP_LINKSTA2_2RETIMERS) % 2 = 0
    \/ s.aspect \notin {"T", "V"}

\* The lanes the list binds a spec of aspect a to once its offending
\* entries are removed (their order does not enter).
CleanBound(l, a) ==
    {x \in Receivers \X LaneNums :
        \E i \in DOMAIN cfgSpecs :
            /\ ~Offending(l, cfgSpecs[i])
            /\ cfgSpecs[i].aspect = a
            /\ cfgSpecs[i].receiver = x[1]
            /\ x[2] < width[l]
            /\ cfgSpecs[i].lanes = {} \/ x[2] \in cfgSpecs[i].lanes}

\* The lanes of link l whose MarginLane task was started.
Margined(l) ==
    {x \in Receivers \X LaneNums : lanepc[l][x[1]][x[2]] # "idle"}

\* marginLink of link l went through all its receivers.
AllLaunched(l) ==
    /\ ltpc[l] \in {"restore", "done"}
    /\ ltrx[l] = ReceiverEnumSize
    /\ ~ltpanic[l]

\* C21: a TestSpec ignored for a configuration error does not change what
\* else is tested: the lanes margined, and the specs bound to them, are
\* those of the same list with the offending entries removed.
IgnoredSpecsChangeNothing ==
    \A l \in Links :
        AllLaunched(l) =>
            /\ Margined(l) = CleanBound(l, "T") \cup CleanBound(l, "V")
            /\ \A x \in Margined(l) :
                 /\ x \in Binding(l).tspec <=> x \in CleanBound(l, "T")
                 /\ x \in Binding(l).vspec <=> x \in CleanBound(l, "V")

\* C22: no lane is margined for receiver Broadcast or Reserved, nor for the
\* retimer receivers B2/C3 (D4/E5) when LnkSta2 reports the first (second)
\* retimer absent; such TestSpecs are skipped while the DSP-A1 and USP-F6
\* specs are still executed (on a list without a spec that misses its
\* aspect, which C21 covers).
AbsentReceiversSkipped ==
    \A l \in Links :
        /\ \A x \in Margined(l) :
              /\ x[1] \notin {R_BROADCAST0, R_RESERVED}
              /\ x[1] \in {R_RTU_B2, R_RTD_C3} =>
                    (lnksta2[l] \div PCI_EXP_LINKSTA2_RETIMER) % 2 = 1
              /\ x[1] \in {R_RTU_D4, R_RTD_E5} =>
                    (lnksta2[l] \div PCI_EXP_LINKSTA2_2RETIMERS) % 2 = 1
        /\ (/\ AllLaunched(l)
            /\ \A i \in DOMAIN cfgSpecs : cfgSpecs[i].aspect \in {"T", "V"}) =>
              \A x \in CleanBound(l, "T") \cup CleanBound(l, "V") :
                  x[1] \in {R_DSP_A1, R_USP_F6} => x \in Margined(l)

\* A link whose list names an absent retimer receiver and Broadcast ended
\* with its USP lane margined and nothing else.
AbsentReceiversWitness ==
    \E l \in Links :
        /\ AllLaunched(l)
        /\ \E i \in DOMAIN cfgSpecs : cfgSpecs[i].receiver = R_RTU_D4
        /\ \E i \in DOMAIN cfgSpecs : cfgSpecs[i].receiver = R_BROADCAST0
        /\ R_RTU_D4 \notin allRx[l]
        /\ Margined(l) = {<<R_USP_F6, 0>>}

\* C9: at most one task is inside a config-space accessor call at any time,
\* it is the holder of the mutex, and a lane sleeping between two polls of
\* a margin point does not hold the mutex.
AccessorMutex ==
    /\ Cardinality(inside) <= 1
    /\ \A t \in inside : m = t
    /\ \A x \in LaneIds :
         (LanePc(x) = "poll" /\ LaneTask(x) \notin inside) => m # LaneTask(x)

\* During one lane's dwell (it sleeps between two polls) another lane is
\* inside an accessor call.
DwellInterleaves ==
    \E x \in LaneIds, y \in LaneIds :
        /\ x # y
        /\ LanePc(x) = "poll"
        /\ LaneTask(x) \notin inside
        /\ LaneTask(y) \in inside

\* ------------------------------------------------------------------------
\* Claims about the codec
\* ------------------------------------------------------------------------
\* C10: for every 16-bit word w whose bit 7 is 0, encode applied to the
\* fields produced by decode(w) returns w.
RoundTripBit7Clear ==
    (cpc = "encoded" /\ Field(craw, 128, 2) = 0) => cenc = craw

\* A word with bit 7 clear and every field non-zero has been decoded and
\* encoded again.
RoundTripWitness ==
    /\ cpc = "encoded"
    /\ Field(craw, 128, 2) = 0
    /\ cr.payload = 156 /\ cr.usage = 1 /\ cr.typ = 7 /\ cr.rec = 6

====
